---- MODULE Spec2Model ----
(***************************************************************************)
(* Model Availability & Fallback Routing Engine of the translation         *)
(* dashboard (tauri-app/src-tauri/src/lib.rs).                              *)
(*                                                                         *)
(* Strings are sequences of atoms; an atom is a character or an            *)
(* indivisible run of characters ("openai-codex", "/", " ").  trim, split  *)
(* and contains work on atoms, so "  zai/glm-5 " is                        *)
(* <<" ", " ", "zai", "/", "glm-5", " ">>.                                  *)
(* JSON values are tagged records; Option<T> is None or Some(x).           *)
(***************************************************************************)
EXTENDS Integers, Sequences, FiniteSets, TLC

VARIABLES
    models_status,   \* the per-agent `models status --json` value
    availability,    \* HashMap<String, bool> built from `models list --json`
    tz_offset_secs,  \* UTC offset of the process' Local time zone
    result,          \* the value the call returned, NoResult before the call
    pc,              \* "ready" before the call, "done" after it
    current,         \* the fallback list read from `models fallbacks list --json`
    kimi_model,      \* OPENCLAW_KIMI_MODEL or its default
    kimi_alt_model,  \* OPENCLAW_KIMI_ALT_MODEL or its default
    fallback_model,  \* OPENCLAW_FALLBACK_MODEL or its default
    desired,         \* the list compute_fallbacks_with_kimi_defaults returned
    cli,             \* what each `openclaw ... --json` call is going to return
    report,          \* the Result of compute_model_availability_report_inner
    web_gateway_enabled, \* OPENCLAW_WEB_GATEWAY_ENABLED read as a flag
    openclaw_ok,     \* whether `openclaw health --json` succeeded
    checks,          \* the model rows run_preflight_check_inner pushed
    fallbacks_config,\* the fallback list the openclaw configuration holds
    add_pos,         \* apply_fallbacks: index in new_list of the next entry
    issued,          \* the `models fallbacks` commands this run has issued
    apply_result,    \* what the last apply_fallbacks returned, NoResult until it has
    runs             \* remediation runs started so far

availability_vars == <<models_status, availability, tz_offset_secs, result>>

fallback_vars == <<current, kimi_model, kimi_alt_model, fallback_model, desired>>

report_vars == <<cli, report>>

preflight_vars == <<web_gateway_enabled, openclaw_ok, checks>>

remediation_vars == <<fallbacks_config, add_pos, issued, apply_result, runs>>

vars == <<availability_vars, pc, fallback_vars, report_vars, preflight_vars,
          remediation_vars>>

----------------------------------------------------------------------------
(* Option<T> *)

None == [t |-> "none"]

Some(x) == [t |-> "some", v |-> x]

(* serde_json::Value *)

JAbsent == [t |-> "absent"]

JOther == [t |-> "other"]

JStr(s) == [t |-> "str", v |-> s]

JInt(n) == [t |-> "int", v |-> n]

JArr(a) == [t |-> "arr", v |-> a]

as_str(j) == IF j.t = "str" THEN Some(j.v) ELSE None

as_i64(j) == IF j.t = "int" THEN Some(j.v) ELSE None

as_array(j) == IF j.t = "arr" THEN Some(j.v) ELSE None

unwrap_or(o, d) == IF o.t = "some" THEN o.v ELSE d

----------------------------------------------------------------------------
(* str helpers *)

Whitespace == {" ", "\t"}

RECURSIVE TrimStart(_)
TrimStart(s) ==
    IF s # <<>> /\ Head(s) \in Whitespace THEN TrimStart(Tail(s)) ELSE s

RECURSIVE TrimEnd(_)
TrimEnd(s) ==
    IF s # <<>> /\ s[Len(s)] \in Whitespace
    THEN TrimEnd(SubSeq(s, 1, Len(s) - 1))
    ELSE s

Trim(s) == TrimEnd(TrimStart(s))

\* model.split('/').next().unwrap_or(""): the text before the first '/',
\* the whole text when there is no '/'.
RECURSIVE SplitFirst(_)
SplitFirst(s) ==
    IF s = <<>> \/ Head(s) = "/" THEN <<>>
    ELSE <<Head(s)>> \o SplitFirst(Tail(s))

\* the atom for U+0060, which a TLA+ string literal cannot hold
Backtick == "U+0060"

DigitChars == <<"0", "1", "2", "3", "4", "5", "6", "7", "8", "9">>

RECURSIVE NatToString(_)
NatToString(n) ==
    IF n < 10 THEN <<DigitChars[n + 1]>>
    ELSE NatToString(n \div 10) \o <<DigitChars[(n % 10) + 1]>>

\* i64 Display
i64_to_string(n) == IF n < 0 THEN <<"-">> \o NatToString(-n) ELSE NatToString(n)

RECURSIVE PadZero(_, _)
PadZero(s, width) == IF Len(s) >= width THEN s ELSE PadZero(<<"0">> \o s, width)

----------------------------------------------------------------------------
(* fmt_epoch_ms: Local.timestamp_millis_opt(ms).single(), "%Y-%m-%d %H:%M:%S" *)

\* chrono accepts years -262143..262142; every integer of the model lies inside.
InChronoRange(ms) == ms \in Int

CivilFromDays(days) ==
    LET z   == days + 719468
        era == z \div 146097
        doe == z - era * 146097
        yoe == (doe - (doe \div 1460) + (doe \div 36524) - (doe \div 146096)) \div 365
        doy == doe - (365 * yoe + (yoe \div 4) - (yoe \div 100))
        mp  == (5 * doy + 2) \div 153
        d   == doy - ((153 * mp + 2) \div 5) + 1
        m   == IF mp < 10 THEN mp + 3 ELSE mp - 9
        y   == yoe + era * 400 + (IF m <= 2 THEN 1 ELSE 0)
    IN  [year |-> y, month |-> m, day |-> d]

fmt_epoch_ms(ms) ==
    IF InChronoRange(ms)
    THEN LET secs == (ms \div 1000) + tz_offset_secs
             date == CivilFromDays(secs \div 86400)
             sod  == secs % 86400
         IN  PadZero(i64_to_string(date.year), 4) \o <<"-">>
             \o PadZero(NatToString(date.month), 2) \o <<"-">>
             \o PadZero(NatToString(date.day), 2) \o <<" ">>
             \o PadZero(NatToString(sod \div 3600), 2) \o <<":">>
             \o PadZero(NatToString((sod % 3600) \div 60), 2) \o <<":">>
             \o PadZero(NatToString(sod % 60), 2)
    ELSE i64_to_string(ms)

----------------------------------------------------------------------------
(* ProviderAuthSummary and provider_summaries_from_models_status *)

ProviderAuthSummary_default ==
    [total_profiles    |-> 0,
     cooldown_profiles |-> 0,
     cooldown_until_ms |-> None,
     oauth_seen        |-> FALSE,
     oauth_has_valid   |-> FALSE,
     api_key_seen      |-> FALSE]

\* HashMap::get(k).cloned().unwrap_or_default() and entry(k).or_default()
MapGetOrDefault(map, k) ==
    IF k \in DOMAIN map THEN map[k] ELSE ProviderAuthSummary_default

MapInsert(map, k, val) ==
    [x \in (DOMAIN map) \cup {k} |-> IF x = k THEN val ELSE map[x]]

EmptyMap == [x \in {} |-> None]

\* mutation: the last until wins instead of the largest
Max_Last(a, b) == b

Max(a, b) == IF a >= b THEN a ELSE b

\* mutation: the last oauth profile decides oauth_has_valid
SummarizeProfile_LastOauth(out, p) ==
    LET provider == as_str(p.provider) IN
    IF provider = None \/ Trim(provider.v) = <<>> THEN out
    ELSE LET entry == MapGetOrDefault(out, provider.v)
             ptype == unwrap_or(as_str(p.type), <<>>)
             remaining_ms == unwrap_or(as_i64(p.remainingMs), 0)
             counted == [entry EXCEPT !.total_profiles = @ + 1]
         IN  MapInsert(out, provider.v,
                 IF ptype = <<"oauth">>
                 THEN [counted EXCEPT !.oauth_seen = TRUE,
                                      !.oauth_has_valid = remaining_ms > 0]
                 ELSE IF ptype = <<"api_key">>
                 THEN [counted EXCEPT !.api_key_seen = TRUE]
                 ELSE counted)

\* mutation: a profile with a blank provider is counted under that provider
SummarizeProfile_KeepBlank(out, p) ==
    LET provider == as_str(p.provider) IN
    IF provider = None THEN out
    ELSE LET entry == MapGetOrDefault(out, provider.v)
             ptype == unwrap_or(as_str(p.type), <<>>)
             remaining_ms == unwrap_or(as_i64(p.remainingMs), 0)
             counted == [entry EXCEPT !.total_profiles = @ + 1]
         IN  MapInsert(out, provider.v,
                 IF ptype = <<"oauth">>
                 THEN [counted EXCEPT !.oauth_seen = TRUE,
                                      !.oauth_has_valid = @ \/ remaining_ms > 0]
                 ELSE IF ptype = <<"api_key">>
                 THEN [counted EXCEPT !.api_key_seen = TRUE]
                 ELSE counted)

\* the body of `for p in profiles`
SummarizeProfile(out, p) ==
    LET provider == as_str(p.provider) IN
    IF provider = None \/ Trim(provider.v) = <<>> THEN out
    ELSE LET entry == MapGetOrDefault(out, provider.v)
             ptype == unwrap_or(as_str(p.type), <<>>)
             remaining_ms == unwrap_or(as_i64(p.remainingMs), 0)
             counted == [entry EXCEPT !.total_profiles = @ + 1]
         IN  MapInsert(out, provider.v,
                 IF ptype = <<"oauth">>
                 THEN [counted EXCEPT !.oauth_seen = TRUE,
                                      !.oauth_has_valid = @ \/ remaining_ms > 0]
                 ELSE IF ptype = <<"api_key">>
                 THEN [counted EXCEPT !.api_key_seen = TRUE]
                 ELSE counted)

\* the body of `for u in unusable`
SummarizeUnusable(out, u) ==
    LET provider == as_str(u.provider) IN
    IF provider = None \/ Trim(provider.v) = <<>> THEN out
    ELSE LET entry == MapGetOrDefault(out, provider.v)
             until == as_i64(u.until)
             counted == [entry EXCEPT !.cooldown_profiles = @ + 1]
         IN  MapInsert(out, provider.v,
                 IF until # None
                 THEN [counted EXCEPT !.cooldown_until_ms =
                          Some(IF @ = None THEN until.v ELSE Max(@.v, until.v))]
                 ELSE counted)

RECURSIVE FoldProfiles(_, _)
FoldProfiles(out, profiles) ==
    IF profiles = <<>> THEN out
    ELSE FoldProfiles(SummarizeProfile(out, Head(profiles)), Tail(profiles))

RECURSIVE FoldUnusable(_, _)
FoldUnusable(out, unusable) ==
    IF unusable = <<>> THEN out
    ELSE FoldUnusable(SummarizeUnusable(out, Head(unusable)), Tail(unusable))

provider_summaries_from_models_status(status) ==
    LET profiles == unwrap_or(as_array(status.profiles), <<>>)
        unusable == unwrap_or(as_array(status.unusableProfiles), <<>>)
    IN  FoldUnusable(FoldProfiles(EmptyMap, profiles), unusable)

----------------------------------------------------------------------------
(* compute_agent_availability *)

NoResult == [t |-> "none"]

\* arr.iter().filter_map(|x| x.as_str().map(|s| s.to_string())).collect()
RECURSIVE FilterStrings(_)
FilterStrings(arr) ==
    IF arr = <<>> THEN <<>>
    ELSE IF as_str(Head(arr)) # None
         THEN <<Head(arr).v>> \o FilterStrings(Tail(arr))
         ELSE FilterStrings(Tail(arr))

\* mutation: defaultModel is preferred to resolvedDefault
ResolvedDefault_DefaultFirst(status) ==
    LET r == as_str(status.defaultModel) IN
    unwrap_or(IF r # None THEN r ELSE as_str(status.resolvedDefault), <<>>)

ResolvedDefault(status) ==
    LET r == as_str(status.resolvedDefault) IN
    unwrap_or(IF r # None THEN r ELSE as_str(status.defaultModel), <<>>)

Fallbacks(status) ==
    LET arr == as_array(status.fallbacks) IN
    IF arr # None THEN FilterStrings(arr.v) ELSE <<>>

\* mutation: the seen set is not consulted
RECURSIVE BuildRouteModels_NoDedup(_, _, _)
BuildRouteModels_NoDedup(items, seen_models, route_models) ==
    IF items = <<>> THEN route_models
    ELSE LET m == Trim(Head(items)) IN
         IF m = <<>>
         THEN BuildRouteModels_NoDedup(Tail(items), seen_models, route_models)
         ELSE BuildRouteModels_NoDedup(Tail(items), seen_models \cup {m},
                                       Append(route_models, m))

\* the loop over once(resolved_default).chain(fallbacks)
RECURSIVE BuildRouteModels(_, _, _)
BuildRouteModels(items, seen_models, route_models) ==
    IF items = <<>> THEN route_models
    ELSE LET m == Trim(Head(items)) IN
         IF m = <<>> THEN BuildRouteModels(Tail(items), seen_models, route_models)
         ELSE IF m \notin seen_models
         THEN BuildRouteModels(Tail(items), seen_models \cup {m}, Append(route_models, m))
         ELSE BuildRouteModels(Tail(items), seen_models, route_models)

RouteModels(resolved_default, fallbacks) ==
    BuildRouteModels(<<resolved_default>> \o fallbacks, {}, <<>>)

\* availability.get(model).copied()
AvailabilityGet(avail, model) ==
    IF model \in DOMAIN avail THEN Some(avail[model]) ELSE None

\* mutation: the profile count is not required to be positive
provider_all_in_cooldown_NoTotal(summary) ==
    summary.cooldown_profiles >= summary.total_profiles

provider_all_in_cooldown(summary) ==
    summary.total_profiles > 0 /\ summary.cooldown_profiles >= summary.total_profiles

\* mutation: the negation is lost
oauth_expired_Negated(summary) == summary.oauth_seen /\ summary.oauth_has_valid

oauth_expired(summary) == summary.oauth_seen /\ ~summary.oauth_has_valid

\* mutation: an api key does not count as auth
auth_ok_OauthOnly(summary) == summary.oauth_seen /\ summary.oauth_has_valid

auth_ok(summary) ==
    IF summary.oauth_seen THEN summary.oauth_has_valid
    ELSE IF summary.api_key_seen THEN TRUE
    ELSE FALSE

\* mutation: the second note is also given for a model marked unavailable
RouteNote_AnyCatalogFlag(available, summary) ==
    IF available = None
    THEN Some(<<"Model not found in ", Backtick, "openclaw models list", Backtick,
                " output.">>)
    ELSE IF ~auth_ok(summary) /\ summary.total_profiles = 0
    THEN Some(<<"No auth profiles found for this provider.">>)
    ELSE None

RouteNote(available, summary) ==
    IF available = None
    THEN Some(<<"Model not found in ", Backtick, "openclaw models list", Backtick,
                " output.">>)
    ELSE IF available = Some(TRUE) /\ ~auth_ok(summary) /\ summary.total_profiles = 0
    THEN Some(<<"No auth profiles found for this provider.">>)
    ELSE None

\* mutation: expired is tested before cooldown
RouteState_ExpiredFirst(available, summary) ==
    IF available = Some(FALSE) THEN "unavailable"
    ELSE IF summary.oauth_seen /\ oauth_expired(summary) THEN "expired"
    ELSE IF provider_all_in_cooldown(summary) THEN "cooldown"
    ELSE IF available = Some(TRUE) /\ auth_ok(summary) THEN "ok"
    ELSE "unknown"

\* mutation: the provider's auth is tested before the catalog flag
RouteState_AuthFirst(available, summary) ==
    IF provider_all_in_cooldown(summary) THEN "cooldown"
    ELSE IF summary.oauth_seen /\ oauth_expired(summary) THEN "expired"
    ELSE IF available # None /\ auth_ok(summary) THEN "ok"
    ELSE IF available = Some(FALSE) THEN "unavailable"
    ELSE "unknown"

RouteState(available, summary) ==
    IF available = Some(FALSE) THEN "unavailable"
    ELSE IF provider_all_in_cooldown(summary) THEN "cooldown"
    ELSE IF summary.oauth_seen /\ oauth_expired(summary) THEN "expired"
    ELSE IF available = Some(TRUE) /\ auth_ok(summary) THEN "ok"
    ELSE "unknown"

\* mutation: the summary's until is copied whatever the state is
RouteCooldownUntil_Always(state, summary) == summary.cooldown_until_ms

RouteCooldownUntil(state, summary) ==
    IF state = "cooldown" THEN summary.cooldown_until_ms ELSE None

RouteAuthExpired(summary) ==
    IF summary.oauth_seen THEN Some(oauth_expired(summary)) ELSE None

\* the body of `for model in &route_models`
RouteEntry(model, avail, provider_summaries) ==
    LET provider  == SplitFirst(model)
        available == AvailabilityGet(avail, model)
        summary   == MapGetOrDefault(provider_summaries, provider)
        state     == RouteState(available, summary)
    IN  [model             |-> model,
         provider          |-> provider,
         available         |-> available,
         state             |-> state,
         cooldown_until_ms |-> RouteCooldownUntil(state, summary),
         auth_expired      |-> RouteAuthExpired(summary),
         note              |-> RouteNote(available, summary)]

BuildRoute(route_models, avail, provider_summaries) ==
    [i \in 1..Len(route_models) |-> RouteEntry(route_models[i], avail, provider_summaries)]

\* mutation: the last ok entry is taken instead of the first
RECURSIVE FirstRunnableModel_Last(_)
FirstRunnableModel_Last(route) ==
    IF route = <<>> THEN None
    ELSE IF route[Len(route)].state = "ok" THEN Some(route[Len(route)].model)
    ELSE FirstRunnableModel_Last(SubSeq(route, 1, Len(route) - 1))

\* route.iter().find(|r| r.state == "ok").map(|r| r.model.clone())
RECURSIVE FirstRunnableModel(_)
FirstRunnableModel(route) ==
    IF route = <<>> THEN None
    ELSE IF Head(route).state = "ok" THEN Some(Head(route).model)
    ELSE FirstRunnableModel(Tail(route))

\* mutation: the raw milliseconds are left out of the text
CooldownReason_NoRaw(provider, summary) ==
    IF summary.cooldown_until_ms # None
    THEN provider \o <<" is in cooldown until ">>
         \o fmt_epoch_ms(summary.cooldown_until_ms.v) \o <<".">>
    ELSE provider \o <<" is in cooldown.">>

CooldownReason(provider, summary) ==
    IF summary.cooldown_until_ms # None
    THEN provider \o <<" is in cooldown until ">>
         \o fmt_epoch_ms(summary.cooldown_until_ms.v)
         \o <<" (">> \o i64_to_string(summary.cooldown_until_ms.v) \o <<").">>
    ELSE provider \o <<" is in cooldown.">>

\* mutation: the last branch, for a provider whose entries are all unknown, is left out
ProviderReason_NoUnknownRule(provider, summary, route) ==
    IF provider_all_in_cooldown(summary)
    THEN Some(CooldownReason(provider, summary))
    ELSE IF \E i \in 1..Len(route) :
                route[i].provider = provider /\ route[i].state = "unavailable"
    THEN Some(provider \o <<" models are unavailable.">>)
    ELSE IF summary.oauth_seen /\ oauth_expired(summary)
    THEN Some(provider \o <<" OAuth appears expired or missing.">>)
    ELSE IF summary.total_profiles = 0
    THEN Some(provider \o <<" has no auth profiles configured.">>)
    ELSE None

\* mutation: the reasons follow the precedence of the entry states, unavailable
\* before cooldown
ProviderReason_UnavailableFirst(provider, summary, route) ==
    IF \E i \in 1..Len(route) :
           route[i].provider = provider /\ route[i].state = "unavailable"
    THEN Some(provider \o <<" models are unavailable.">>)
    ELSE IF provider_all_in_cooldown(summary)
    THEN Some(CooldownReason(provider, summary))
    ELSE IF summary.oauth_seen /\ oauth_expired(summary)
    THEN Some(provider \o <<" OAuth appears expired or missing.">>)
    ELSE IF summary.total_profiles = 0
    THEN Some(provider \o <<" has no auth profiles configured.">>)
    ELSE IF \A i \in 1..Len(route) :
                route[i].provider # provider \/ route[i].state = "unknown"
    THEN Some(provider \o <<" availability is unknown.">>)
    ELSE None

\* the reason pushed for one provider of the route, None when no branch pushes
ProviderReason(provider, summary, route) ==
    IF provider_all_in_cooldown(summary)
    THEN Some(CooldownReason(provider, summary))
    ELSE IF \E i \in 1..Len(route) :
                route[i].provider = provider /\ route[i].state = "unavailable"
    THEN Some(provider \o <<" models are unavailable.">>)
    ELSE IF summary.oauth_seen /\ oauth_expired(summary)
    THEN Some(provider \o <<" OAuth appears expired or missing.">>)
    ELSE IF summary.total_profiles = 0
    THEN Some(provider \o <<" has no auth profiles configured.">>)
    ELSE IF \A i \in 1..Len(route) :
                route[i].provider # provider \/ route[i].state = "unknown"
    THEN Some(provider \o <<" availability is unknown.">>)
    ELSE None

\* mutation: a provider is handled again at every entry
RECURSIVE ScanProviders_NoSeen(_, _, _, _, _)
ScanProviders_NoSeen(items, route, provider_summaries, seen_providers, blocked_reasons) ==
    IF items = <<>> THEN blocked_reasons
    ELSE LET item == Head(items)
             reason == ProviderReason(item.provider,
                           MapGetOrDefault(provider_summaries, item.provider),
                           route)
         IN  ScanProviders_NoSeen(Tail(items), route, provider_summaries,
                                  seen_providers \cup {item.provider},
                                  IF reason # None
                                  THEN Append(blocked_reasons, reason.v)
                                  ELSE blocked_reasons)

\* the loop `for item in &route` with its seen_providers set
RECURSIVE ScanProviders(_, _, _, _, _)
ScanProviders(items, route, provider_summaries, seen_providers, blocked_reasons) ==
    IF items = <<>> THEN blocked_reasons
    ELSE LET item == Head(items) IN
         IF item.provider \in seen_providers
         THEN ScanProviders(Tail(items), route, provider_summaries,
                            seen_providers, blocked_reasons)
         ELSE LET reason == ProviderReason(item.provider,
                                MapGetOrDefault(provider_summaries, item.provider),
                                route)
              IN  ScanProviders(Tail(items), route, provider_summaries,
                                seen_providers \cup {item.provider},
                                IF reason # None
                                THEN Append(blocked_reasons, reason.v)
                                ELSE blocked_reasons)

\* mutation: the reasons are composed whether or not the agent is runnable
BlockedReasons_Always(runnable_now, route, provider_summaries) ==
    LET scanned == ScanProviders(route, route, provider_summaries, {}, <<>>)
    IN  IF scanned = <<>> THEN <<<<"No runnable route model found.">>>>
        ELSE scanned

\* mutation: nothing is pushed when the scan gave no reason
BlockedReasons_NoFallback(runnable_now, route, provider_summaries) ==
    IF ~runnable_now
    THEN ScanProviders(route, route, provider_summaries, {}, <<>>)
    ELSE <<>>

BlockedReasons(runnable_now, route, provider_summaries) ==
    IF ~runnable_now
    THEN LET scanned == ScanProviders(route, route, provider_summaries, {}, <<>>)
         IN  IF scanned = <<>> THEN <<<<"No runnable route model found.">>>>
             ELSE scanned
    ELSE <<>>

compute_agent_availability(agent_id, status, avail) ==
    LET resolved_default     == ResolvedDefault(status)
        fallbacks            == Fallbacks(status)
        route_models         == RouteModels(resolved_default, fallbacks)
        provider_summaries   == provider_summaries_from_models_status(status)
        route                == BuildRoute(route_models, avail, provider_summaries)
        first_runnable_model == FirstRunnableModel(route)
        runnable_now         == first_runnable_model # None
    IN  [agent_id             |-> agent_id,
         default_model        |-> resolved_default,
         fallbacks            |-> fallbacks,
         route                |-> route,
         runnable_now         |-> runnable_now,
         first_runnable_model |-> first_runnable_model,
         blocked_reasons      |-> BlockedReasons(runnable_now, route, provider_summaries)]

----------------------------------------------------------------------------
(* compute_fallbacks_with_kimi_defaults *)

\* str::starts_with, on atoms
StartsWith(s, prefix) ==
    Len(s) >= Len(prefix) /\ SubSeq(s, 1, Len(prefix)) = prefix

GlmPrefix == <<"zai", "/", "glm-">>

\* mutation: no model counts as a GLM model
IsGlm_Never(model) == FALSE

\* model.starts_with("zai/glm-")
IsGlm(model) == StartsWith(model, GlmPrefix)

\* mutation: entries already taken are taken again
RECURSIVE FilterCurrent_NoSeen(_, _, _, _, _, _)
FilterCurrent_NoSeen(items, kimi, kimi_alt, fallback, seen, out) ==
    IF items = <<>> THEN out
    ELSE LET m == Trim(Head(items)) IN
         IF m = <<>>
         THEN FilterCurrent_NoSeen(Tail(items), kimi, kimi_alt, fallback, seen, out)
         ELSE IF \/ (kimi # <<>> /\ m = kimi)
                 \/ (kimi_alt # <<>> /\ m = kimi_alt)
                 \/ (fallback # <<>> /\ m = fallback)
         THEN FilterCurrent_NoSeen(Tail(items), kimi, kimi_alt, fallback, seen, out)
         ELSE FilterCurrent_NoSeen(Tail(items), kimi, kimi_alt, fallback,
                                   seen \cup {m}, Append(out, m))

\* the loop `for item in current`
RECURSIVE FilterCurrent(_, _, _, _, _, _)
FilterCurrent(items, kimi, kimi_alt, fallback, seen, out) ==
    IF items = <<>> THEN out
    ELSE LET m == Trim(Head(items)) IN
         IF m = <<>>
         THEN FilterCurrent(Tail(items), kimi, kimi_alt, fallback, seen, out)
         ELSE IF \/ (kimi # <<>> /\ m = kimi)
                 \/ (kimi_alt # <<>> /\ m = kimi_alt)
                 \/ (fallback # <<>> /\ m = fallback)
         THEN FilterCurrent(Tail(items), kimi, kimi_alt, fallback, seen, out)
         ELSE IF m \notin seen
         THEN FilterCurrent(Tail(items), kimi, kimi_alt, fallback,
                            seen \cup {m}, Append(out, m))
         ELSE FilterCurrent(Tail(items), kimi, kimi_alt, fallback, seen, out)

\* the loop `for model in [kimi, kimi_alt, fallback]`
RECURSIVE BuildHead(_, _)
BuildHead(models, head) ==
    IF models = <<>> THEN head
    ELSE IF Head(models) = <<>> THEN BuildHead(Tail(models), head)
    ELSE IF ~\E k \in DOMAIN head : head[k] = Head(models)
    THEN BuildHead(Tail(models), Append(head, Head(models)))
    ELSE BuildHead(Tail(models), head)

\* mutation: a model is put in front of non_glm instead of behind it
RECURSIVE NonGlm_Prepend(_)
NonGlm_Prepend(out) ==
    IF out = <<>> THEN <<>>
    ELSE IF IsGlm(Head(out)) THEN NonGlm_Prepend(Tail(out))
    ELSE NonGlm_Prepend(Tail(out)) \o <<Head(out)>>

\* the non_glm list of the loop `for model in out`
RECURSIVE NonGlm(_)
NonGlm(out) ==
    IF out = <<>> THEN <<>>
    ELSE IF IsGlm(Head(out)) THEN NonGlm(Tail(out))
    ELSE <<Head(out)>> \o NonGlm(Tail(out))

\* the glm list of the loop `for model in out`
RECURSIVE Glm(_)
Glm(out) ==
    IF out = <<>> THEN <<>>
    ELSE IF IsGlm(Head(out)) THEN <<Head(out)>> \o Glm(Tail(out))
    ELSE Glm(Tail(out))

\* mutation: the GLM models are placed before the other models of current
Desired_GlmFirst(head, non_glm, glm) == head \o glm \o non_glm

\* desired.extend(head); desired.extend(non_glm); desired.extend(glm)
Desired(head, non_glm, glm) == head \o non_glm \o glm

\* the loop `for model in desired` with its dedup_seen set
RECURSIVE Dedup(_, _, _)
Dedup(items, dedup_seen, deduped) ==
    IF items = <<>> THEN deduped
    ELSE IF Head(items) \notin dedup_seen
    THEN Dedup(Tail(items), dedup_seen \cup {Head(items)}, Append(deduped, Head(items)))
    ELSE Dedup(Tail(items), dedup_seen, deduped)

\* mutation: the models are partitioned also when head is empty
compute_fallbacks_with_kimi_defaults_NoEarlyReturn(cur, k_model, k_alt_model, f_model) ==
    LET kimi     == Trim(k_model)
        kimi_alt == Trim(k_alt_model)
        fallback == Trim(f_model)
        out      == FilterCurrent(cur, kimi, kimi_alt, fallback, {}, <<>>)
        head     == BuildHead(<<kimi, kimi_alt, fallback>>, <<>>)
    IN  Dedup(Desired(head, NonGlm(out), Glm(out)), {}, <<>>)

compute_fallbacks_with_kimi_defaults(cur, k_model, k_alt_model, f_model) ==
    LET kimi     == Trim(k_model)
        kimi_alt == Trim(k_alt_model)
        fallback == Trim(f_model)
        out      == FilterCurrent(cur, kimi, kimi_alt, fallback, {}, <<>>)
        head     == BuildHead(<<kimi, kimi_alt, fallback>>, <<>>)
    IN  IF head = <<>> THEN out
        ELSE Dedup(Desired(head, NonGlm(out), Glm(out)), {}, <<>>)

----------------------------------------------------------------------------
(* apply_fallbacks and its call in auto_fix_preflight *)

\* one `openclaw models fallbacks ...` command
ClearCmd == [cmd |-> "clear", model |-> <<>>]

AddCmd(m) == [cmd |-> "add", model |-> m]

\* the loop `for model in new_list` from entry pos on: the index of the next
\* entry whose trimmed text is not empty, Len(new_list) + 1 when there is none
RECURSIVE NextNonBlank(_, _)
NextNonBlank(new_list, pos) ==
    IF pos > Len(new_list) THEN pos
    ELSE IF Trim(new_list[pos]) = <<>> THEN NextNonBlank(new_list, pos + 1)
    ELSE pos

\* mutation: the entries are added without clearing the list first
AfterClear_Keep(config) == config

\* what `models fallbacks clear` leaves of the configured list when it succeeds
AfterClear(config) == <<>>

\* what `models fallbacks add m` makes of the configured list when it succeeds
AfterAdd(config, m) == Append(config, m)

\* mutation: the list is applied on every run
ShouldApply_Always(des, cur) == TRUE

\* `if desired != current`
ShouldApply(des, cur) == des # cur

----------------------------------------------------------------------------
(* models_available_map and compute_model_availability_report_inner *)

\* Result<T, String>
Ok(x) == [t |-> "ok", v |-> x]

Err(e) == [t |-> "err", e |-> e]

JBool(b) == [t |-> "bool", v |-> b]

as_bool(j) == IF j.t = "bool" THEN Some(j.v) ELSE None

\* the body of `for m in models`
IndexModel(out, m) ==
    LET key   == as_str(m.key)
        avail == as_bool(m.available)
    IN  IF key = None THEN out
        ELSE IF avail # None THEN MapInsert(out, key.v, avail.v)
        ELSE out

RECURSIVE FoldModels(_, _)
FoldModels(out, models) ==
    IF models = <<>> THEN out
    ELSE FoldModels(IndexModel(out, Head(models)), Tail(models))

models_available_map(models_list) ==
    LET models == as_array(models_list.models) IN
    IF models = None THEN EmptyMap ELSE FoldModels(EmptyMap, models.v)

TranslatorCore == <<"translator-core">>

ReviewCore == <<"review-core">>

\* the value of a JSON document without any of the fields read
EmptyStatus ==
    [resolvedDefault  |-> JAbsent,
     defaultModel     |-> JAbsent,
     fallbacks        |-> JAbsent,
     profiles         |-> JAbsent,
     unusableProfiles |-> JAbsent]

\* mutation: a failed status call is taken as an empty status
compute_model_availability_report_inner_Lenient(outcomes) ==
    LET models_list       == outcomes.models_list
        translator_status == IF outcomes.translator_status.t = "err"
                             THEN Ok(EmptyStatus) ELSE outcomes.translator_status
        review_status     == IF outcomes.review_status.t = "err"
                             THEN Ok(EmptyStatus) ELSE outcomes.review_status
    IN  IF models_list.t = "err" THEN Err(models_list.e)
        ELSE LET avail      == models_available_map(models_list.v)
                 translator == compute_agent_availability(TranslatorCore,
                                   translator_status.v, avail)
                 review     == compute_agent_availability(ReviewCore,
                                   review_status.v, avail)
             IN  Ok([agents |-> MapInsert(MapInsert(EmptyMap, translator.agent_id,
                                                    translator),
                                          review.agent_id, review)])

\* outcomes holds what each run_openclaw_json call returns, in the order of the
\* calls; the vision and glm flag groups and fetched_at of the report are left out
compute_model_availability_report_inner(outcomes) ==
    LET models_list       == outcomes.models_list
        translator_status == outcomes.translator_status
        review_status     == outcomes.review_status
    IN  IF models_list.t = "err" THEN Err(models_list.e)
        ELSE IF translator_status.t = "err" THEN Err(translator_status.e)
        ELSE IF review_status.t = "err" THEN Err(review_status.e)
        ELSE LET avail      == models_available_map(models_list.v)
                 translator == compute_agent_availability(TranslatorCore,
                                   translator_status.v, avail)
                 review     == compute_agent_availability(ReviewCore,
                                   review_status.v, avail)
             IN  Ok([agents |-> MapInsert(MapInsert(EmptyMap, translator.agent_id,
                                                    translator),
                                          review.agent_id, review)])

----------------------------------------------------------------------------
(* run_preflight_check_inner: the translator-core and review-core rows *)

\* Result::ok
ok(r) == IF r.t = "ok" THEN Some(r.v) ELSE None

\* report.as_ref().and_then(|r| r.agents.get(agent))
AgentOf(rep, agent) ==
    IF rep.t = "some" /\ agent \in DOMAIN rep.v.agents
    THEN Some(rep.v.agents[agent]) ELSE None

\* [String]::join
RECURSIVE join(_, _)
join(strs, sep) ==
    IF strs = <<>> THEN <<>>
    ELSE IF Len(strs) = 1 THEN strs[1]
    ELSE strs[1] \o sep \o join(Tail(strs), sep)

PreflightCheck(name, key, status, message) ==
    [name |-> name, key |-> key, status |-> status, message |-> message]

\* mutation: a translator-core route that is not runnable only warns
TranslatorRow_Warning(web, oc_ok, rep) ==
    LET a == AgentOf(rep, TranslatorCore)
        row == IF web
               THEN <<"warning", <<"Skipped in web gateway mode (generation/review providers are configured via OPENCLAW_WEB_LLM_*).">>>>
               ELSE IF a.t = "some" /\ a.v.runnable_now
               THEN <<"pass", <<"Runnable. First usable model: ">>
                              \o unwrap_or(a.v.first_runnable_model, <<"unknown">>)
                              \o <<". (Inspect: openclaw models status --agent translator-core --json)">>>>
               ELSE IF a.t = "some"
               THEN <<"warning", <<"Blocked. ">> \o join(a.v.blocked_reasons, <<" ">>)
                                 \o <<" (Inspect: openclaw models status --agent translator-core --json; Fix auth: openclaw models auth login --provider openai-codex)">>>>
               ELSE IF oc_ok
               THEN <<"blocker", <<"Could not evaluate model availability (openclaw models status/list failed). Try: openclaw models status --agent translator-core --json">>>>
               ELSE <<"blocker", <<"OpenClaw not running; cannot evaluate translator-core models. Try: openclaw gateway --force">>>>
    IN  PreflightCheck("Models (translator-core)", "models_translator_core",
                       row[1], row[2])

\* translator-core model route (required)
TranslatorRow(web, oc_ok, rep) ==
    LET a == AgentOf(rep, TranslatorCore)
        row == IF web
               THEN <<"warning", <<"Skipped in web gateway mode (generation/review providers are configured via OPENCLAW_WEB_LLM_*).">>>>
               ELSE IF a.t = "some" /\ a.v.runnable_now
               THEN <<"pass", <<"Runnable. First usable model: ">>
                              \o unwrap_or(a.v.first_runnable_model, <<"unknown">>)
                              \o <<". (Inspect: openclaw models status --agent translator-core --json)">>>>
               ELSE IF a.t = "some"
               THEN <<"blocker", <<"Blocked. ">> \o join(a.v.blocked_reasons, <<" ">>)
                                 \o <<" (Inspect: openclaw models status --agent translator-core --json; Fix auth: openclaw models auth login --provider openai-codex)">>>>
               ELSE IF oc_ok
               THEN <<"blocker", <<"Could not evaluate model availability (openclaw models status/list failed). Try: openclaw models status --agent translator-core --json">>>>
               ELSE <<"blocker", <<"OpenClaw not running; cannot evaluate translator-core models. Try: openclaw gateway --force">>>>
    IN  PreflightCheck("Models (translator-core)", "models_translator_core",
                       row[1], row[2])

\* review-core model route (optional-ish: warnings)
ReviewRow(web, oc_ok, rep) ==
    LET a == AgentOf(rep, ReviewCore)
        row == IF web
               THEN <<"warning", <<"Skipped in web gateway mode (review providers are configured via OPENCLAW_WEB_LLM_*).">>>>
               ELSE IF a.t = "some" /\ a.v.runnable_now
               THEN <<"pass", <<"Runnable. First usable model: ">>
                              \o unwrap_or(a.v.first_runnable_model, <<"unknown">>)
                              \o <<". (Inspect: openclaw models status --agent review-core --json)">>>>
               ELSE IF a.t = "some"
               THEN <<"warning", <<"Not runnable. ">> \o join(a.v.blocked_reasons, <<" ">>)
                                 \o <<" (Inspect: openclaw models status --agent review-core --json)">>>>
               ELSE IF oc_ok
               THEN <<"warning", <<"Could not evaluate review-core model availability. Try: openclaw models status --agent review-core --json">>>>
               ELSE <<"warning", <<"OpenClaw not running; cannot evaluate review-core models.">>>>
    IN  PreflightCheck("Models (review-core)", "models_review_core", row[1], row[2])

----------------------------------------------------------------------------
(* Inputs *)

MaxFallbacks == 2

MaxProfiles == 2

MaxUnusable == 2

MaxCurrent == 3

MaxModels == 2

SeqsUpTo(S, n) == UNION {[1..k -> S] : k \in 0..n}

OpenaiCodex == <<"openai-codex">>

Zai == <<"zai">>

Gpt52 == OpenaiCodex \o <<"/", "gpt-5.2">>

Gpt53Codex == OpenaiCodex \o <<"/", "gpt-5.3-codex">>

Glm5 == Zai \o <<"/", "glm-", "5">>

Profile(provider, type, remainingMs) ==
    [provider |-> provider, type |-> type, remainingMs |-> remainingMs]

Unusable(provider, until) == [provider |-> provider, until |-> until]

OauthValid == Profile(JStr(OpenaiCodex), JStr(<<"oauth">>), JInt(1000))

OauthExpiredProfile == Profile(JStr(OpenaiCodex), JStr(<<"oauth">>), JInt(-1))

ApiKeyZai == Profile(JStr(Zai), JStr(<<"api_key">>), JAbsent)

AgentId == <<"translator-core">>

\* the variables of the calls that are not made
AvailabilityIdle ==
    /\ models_status = EmptyStatus
    /\ availability = EmptyMap
    /\ tz_offset_secs = 0
    /\ result = NoResult

FallbackIdle ==
    /\ current = <<>>
    /\ kimi_model = <<>>
    /\ kimi_alt_model = <<>>
    /\ fallback_model = <<>>
    /\ desired = NoResult

ReportIdle == cli = NoResult /\ report = NoResult

PreflightIdle ==
    /\ web_gateway_enabled = FALSE
    /\ openclaw_ok = FALSE
    /\ checks = NoResult

RemediationIdle ==
    /\ fallbacks_config = <<>>
    /\ add_pos = 0
    /\ issued = <<>>
    /\ apply_result = NoResult
    /\ runs = 0

\* the states before one call of compute_agent_availability: defaults is a set
\* of <<resolvedDefault, defaultModel>> pairs, the others are sets of lists
InitWith(defaults, fallbackLists, profileLists, unusableLists, maps, offsets) ==
    /\ \E d \in defaults, f \in fallbackLists, p \in profileLists, u \in unusableLists :
            models_status = [resolvedDefault  |-> d[1],
                             defaultModel     |-> d[2],
                             fallbacks        |-> JArr(f),
                             profiles         |-> JArr(p),
                             unusableProfiles |-> JArr(u)]
    /\ availability \in maps
    /\ tz_offset_secs \in offsets
    /\ result = NoResult
    /\ pc = "ready"
    /\ FallbackIdle
    /\ ReportIdle
    /\ PreflightIdle
    /\ RemediationIdle

MapsOver(keys) == UNION {[D -> BOOLEAN] : D \in SUBSET keys}

----------------------------------------------------------------------------
(* The state machine: one call of compute_agent_availability *)

ComputeAgentAvailability ==
    /\ pc = "ready"
    /\ result' = compute_agent_availability(AgentId, models_status, availability)
    /\ pc' = "done"
    /\ UNCHANGED <<models_status, availability, tz_offset_secs>>
    /\ UNCHANGED <<fallback_vars, report_vars, preflight_vars, remediation_vars>>

Next == ComputeAgentAvailability

\* Spec: the auth profiles and cooldown records vary, over a short route
Init ==
    InitWith({<<JStr(Gpt52), JAbsent>>},
             SeqsUpTo({JStr(Gpt53Codex), JStr(Glm5)}, MaxFallbacks),
             SeqsUpTo({OauthValid, OauthExpiredProfile, ApiKeyZai}, MaxProfiles),
             SeqsUpTo({Unusable(JStr(OpenaiCodex), JInt(12345)),
                       Unusable(JStr(OpenaiCodex), JInt(99)),
                       Unusable(JStr(Zai), JAbsent)}, MaxUnusable),
             MapsOver({Gpt52, Glm5}),
             {0})

Spec == Init /\ [][Next]_vars

\* SpecRoute: the default model and the fallback list vary (padded, blank,
\* repeated and non-string entries), over two auth configurations
InitRoute ==
    InitWith({<<JStr(Gpt52), JAbsent>>, <<JAbsent, JStr(Glm5)>>, <<JAbsent, JAbsent>>},
             SeqsUpTo({JStr(Gpt52), JStr(Gpt53Codex), JStr(<<" ">> \o Glm5 \o <<" ">>),
                       JStr(<<" ">>), JOther}, MaxFallbacks),
             {<<>>, <<ApiKeyZai, OauthValid>>},
             {<<>>},
             MapsOver({Gpt52, Gpt53Codex, Glm5}),
             {0})

SpecRoute == InitRoute /\ [][Next]_vars

\* SpecReasons: routes over two providers, with the auth profiles, the cooldown
\* records varying, in a time zone east of UTC
InitReasons ==
    InitWith({<<JStr(Gpt52), JAbsent>>, <<JAbsent, JAbsent>>},
             SeqsUpTo({JStr(Gpt53Codex), JStr(Glm5)}, MaxFallbacks),
             SeqsUpTo({OauthValid, OauthExpiredProfile, ApiKeyZai}, MaxProfiles),
             SeqsUpTo({Unusable(JStr(OpenaiCodex), JInt(12345)),
                       Unusable(JStr(Zai), JAbsent)}, MaxUnusable),
             MapsOver({Gpt52, Glm5}),
             {28800})

SpecReasons == InitReasons /\ [][Next]_vars

\* SpecBlocked: routes over two providers that are mostly blocked: expired
\* OAuth, API keys, cooldown records, and a catalog that marks models
\* unavailable or does not list them
InitBlocked ==
    InitWith({<<JStr(Gpt52), JAbsent>>, <<JAbsent, JAbsent>>},
             SeqsUpTo({JStr(Gpt53Codex), JStr(Glm5)}, MaxFallbacks),
             SeqsUpTo({OauthExpiredProfile, ApiKeyZai}, MaxProfiles),
             SeqsUpTo({Unusable(JStr(OpenaiCodex), JInt(12345)),
                       Unusable(JStr(Zai), JAbsent)}, MaxUnusable),
             MapsOver({Gpt52, Glm5}),
             {0})

SpecBlocked == InitBlocked /\ [][Next]_vars

\* SpecCooldown: the cooldown records vary (several until values, one before the
\* epoch, some without until), in three time zones
InitCooldown ==
    InitWith({<<JStr(Gpt52), JAbsent>>},
             SeqsUpTo({JStr(Glm5)}, MaxFallbacks),
             SeqsUpTo({OauthValid, ApiKeyZai}, MaxProfiles),
             SeqsUpTo({Unusable(JStr(OpenaiCodex), JInt(12345)),
                       Unusable(JStr(OpenaiCodex), JInt(99)),
                       Unusable(JStr(OpenaiCodex), JInt(-1)),
                       Unusable(JStr(Zai), JAbsent)}, MaxUnusable),
             MapsOver({Gpt52}),
             {0, 28800, -18000})

SpecCooldown == InitCooldown /\ [][Next]_vars

\* SpecDefault: resolvedDefault and defaultModel given, blank, wrong-typed or
\* missing, over fallback lists with blank and non-string entries
InitDefault ==
    InitWith({<<JStr(Gpt52), JStr(Glm5)>>, <<JStr(Gpt52), JAbsent>>,
              <<JStr(<<" ">>), JStr(Glm5)>>, <<JOther, JStr(Glm5)>>,
              <<JAbsent, JStr(<<>>)>>, <<JAbsent, JAbsent>>},
             SeqsUpTo({JStr(Gpt53Codex), JStr(<<" ">>), JOther}, MaxFallbacks),
             {<<>>, <<OauthValid>>},
             {<<>>},
             MapsOver({Gpt52, Gpt53Codex}),
             {0})

SpecDefault == InitDefault /\ [][Next]_vars

\* SpecShapes: status documents with missing and wrong-typed fields, routes
\* with a model without provider ("/glm-5") and one without '/' ("gpt-5.2")
NoProviderModel == <<"/", "glm-", "5">>

NoSlashModel == <<"gpt-5.2">>

InitShapes ==
    /\ \E d \in {<<JStr(NoProviderModel), JAbsent>>, <<JOther, JStr(Glm5)>>,
                  <<JInt(7), JOther>>},
          f \in {JAbsent, JOther}
                 \cup {JArr(a) : a \in SeqsUpTo({JStr(NoSlashModel), JInt(7)}, MaxFallbacks)},
          p \in {JAbsent, JOther}
                 \cup {JArr(a) : a \in SeqsUpTo({Profile(JStr(<<>>), JStr(<<"api_key">>), JAbsent),
                                                 Profile(JStr(Zai), JOther, JAbsent),
                                                 Profile(JStr(Zai), JStr(<<"oauth">>), JOther)},
                                                MaxProfiles)},
          u \in {JAbsent, JOther}
                 \cup {JArr(a) : a \in SeqsUpTo({Unusable(JAbsent, JInt(99)),
                                                 Unusable(JStr(Zai), JOther)},
                                                MaxUnusable)} :
            models_status = [resolvedDefault  |-> d[1],
                             defaultModel     |-> d[2],
                             fallbacks        |-> f,
                             profiles         |-> p,
                             unusableProfiles |-> u]
    /\ availability \in MapsOver({NoProviderModel}) \cup [{Glm5} -> {TRUE}]
    /\ tz_offset_secs = 0
    /\ result = NoResult
    /\ pc = "ready"
    /\ FallbackIdle
    /\ ReportIdle
    /\ PreflightIdle
    /\ RemediationIdle

SpecShapes == InitShapes /\ [][Next]_vars

\* SpecSummaries: one call of provider_summaries_from_models_status, over
\* profiles of two providers (oauth valid and expired, api key, no type, no
\* provider) and cooldown records with and without until
ProviderSummaries ==
    /\ pc = "ready"
    /\ result' = provider_summaries_from_models_status(models_status)
    /\ pc' = "done"
    /\ UNCHANGED <<models_status, availability, tz_offset_secs>>
    /\ UNCHANGED <<fallback_vars, report_vars, preflight_vars, remediation_vars>>

NextSummaries == ProviderSummaries

InitSummaries ==
    InitWith({<<JAbsent, JAbsent>>},
             {<<>>},
             SeqsUpTo({OauthValid, OauthExpiredProfile, ApiKeyZai,
                       Profile(JStr(OpenaiCodex), JStr(<<"api_key">>), JAbsent),
                       Profile(JStr(Zai), JAbsent, JInt(1000)),
                       Profile(JStr(<<" ">>), JStr(<<"oauth">>), JInt(1000))}, MaxProfiles),
             SeqsUpTo({Unusable(JStr(OpenaiCodex), JInt(12345)),
                       Unusable(JStr(OpenaiCodex), JInt(99)),
                       Unusable(JStr(Zai), JAbsent),
                       Unusable(JAbsent, JInt(7))}, MaxUnusable),
             {EmptyMap},
             {0})

SpecSummaries == InitSummaries /\ [][NextSummaries]_vars

\* SpecOrder: compute_agent_availability on a status, then on the same status
\* with the entries of profiles and unusableProfiles in another order
Perms(n) == {f \in [1..n -> 1..n] : \A i, j \in 1..n : f[i] = f[j] => i = j}

Permute(list, f) == [i \in 1..Len(list) |-> list[f[i]]]

ComputeAgentAvailabilityReordered ==
    /\ pc = "done"
    /\ \E f \in Perms(Len(models_status.profiles.v)),
          g \in Perms(Len(models_status.unusableProfiles.v)) :
           LET reordered ==
                   [models_status EXCEPT
                       !.profiles = JArr(Permute(models_status.profiles.v, f)),
                       !.unusableProfiles =
                           JArr(Permute(models_status.unusableProfiles.v, g))]
           IN  /\ reordered # models_status
               /\ models_status' = reordered
               /\ result' = compute_agent_availability(AgentId, reordered, availability)
    /\ pc' = "again"
    /\ UNCHANGED <<availability, tz_offset_secs>>
    /\ UNCHANGED <<fallback_vars, report_vars, preflight_vars, remediation_vars>>

NextOrder == ComputeAgentAvailability \/ ComputeAgentAvailabilityReordered

InitOrder ==
    InitWith({<<JStr(Gpt52), JAbsent>>},
             {<<>>, <<JStr(Glm5)>>},
             SeqsUpTo({OauthValid, OauthExpiredProfile, ApiKeyZai}, MaxProfiles),
             SeqsUpTo({Unusable(JStr(OpenaiCodex), JInt(12345)),
                       Unusable(JStr(OpenaiCodex), JInt(99)),
                       Unusable(JStr(Zai), JAbsent)}, MaxUnusable),
             MapsOver({Gpt52}),
             {0})

SpecOrder == InitOrder /\ [][NextOrder]_vars

\* SpecFallbacks: compute_fallbacks_with_kimi_defaults on a fallback list, then
\* on the list it returned, with the same policy arguments
Kimi25 == <<"moonshot", "/", "kimi-k2.5">>

K2p5 == <<"kimi-coding", "/", "k2p5">>

Glm46v == Zai \o <<"/", "glm-", "4.6v">>

ComputeFallbacks ==
    /\ pc = "ready"
    /\ desired' = compute_fallbacks_with_kimi_defaults(current, kimi_model,
                       kimi_alt_model, fallback_model)
    /\ pc' = "done"
    /\ UNCHANGED <<current, kimi_model, kimi_alt_model, fallback_model>>
    /\ UNCHANGED <<availability_vars, report_vars, preflight_vars, remediation_vars>>

ComputeFallbacksAgain ==
    /\ pc = "done"
    /\ desired' = compute_fallbacks_with_kimi_defaults(desired, kimi_model,
                       kimi_alt_model, fallback_model)
    /\ pc' = "again"
    /\ UNCHANGED <<current, kimi_model, kimi_alt_model, fallback_model>>
    /\ UNCHANGED <<availability_vars, report_vars, preflight_vars, remediation_vars>>

NextFallbacks == ComputeFallbacks \/ ComputeFallbacksAgain

InitFallbacks ==
    /\ current \in SeqsUpTo({Gpt52, Glm5, Glm46v, K2p5, <<" ">> \o Glm5, <<" ">>},
                             MaxCurrent)
    /\ kimi_model \in {Kimi25, <<>>, Glm5}
    /\ kimi_alt_model \in {K2p5, <<" ">>}
    /\ fallback_model \in {K2p5, <<>>, Glm46v, Kimi25 \o <<" ">>}
    /\ desired = NoResult
    /\ pc = "ready"
    /\ AvailabilityIdle
    /\ ReportIdle
    /\ PreflightIdle
    /\ RemediationIdle

SpecFallbacks == InitFallbacks /\ [][NextFallbacks]_vars

\* SpecReport: one call of compute_model_availability_report_inner; each of its
\* three CLI calls fails (non-zero exit, output that is not JSON) or returns a
\* document
ModelEntry(key, available) == [key |-> key, available |-> available]

ComputeModelAvailabilityReportInner ==
    /\ pc = "ready"
    /\ report' = compute_model_availability_report_inner(cli)
    /\ pc' = "done"
    /\ UNCHANGED cli
    /\ UNCHANGED <<availability_vars, fallback_vars, preflight_vars, remediation_vars>>

NextReport == ComputeModelAvailabilityReportInner

CliFailures == {Err(<<"exited with code">>), Err(<<"Failed to parse openclaw JSON output">>)}

StatusWith(default, profiles) ==
    [resolvedDefault  |-> JStr(default),
     defaultModel     |-> JAbsent,
     fallbacks        |-> JAbsent,
     profiles         |-> JArr(profiles),
     unusableProfiles |-> JAbsent]

InitReport ==
    /\ cli \in [models_list :
                    CliFailures
                    \cup {Ok([models |-> JOther])}
                    \cup {Ok([models |-> JArr(a)]) :
                            a \in SeqsUpTo({ModelEntry(JStr(Gpt52), JBool(TRUE)),
                                            ModelEntry(JStr(Gpt52), JBool(FALSE)),
                                            ModelEntry(JStr(Glm5), JAbsent)}, MaxModels)},
                translator_status :
                    CliFailures
                    \cup {Ok(EmptyStatus), Ok(StatusWith(Gpt52, <<OauthValid>>)),
                          Ok(StatusWith(Glm5, <<ApiKeyZai>>))},
                review_status :
                    CliFailures
                    \cup {Ok(EmptyStatus), Ok(StatusWith(Gpt52, <<OauthValid>>)),
                          Ok(StatusWith(Glm5, <<ApiKeyZai>>))}]
    /\ report = NoResult
    /\ pc = "ready"
    /\ AvailabilityIdle
    /\ FallbackIdle
    /\ PreflightIdle
    /\ RemediationIdle

SpecReport == InitReport /\ [][NextReport]_vars

\* SpecPreflight: the model rows of one run_preflight_check_inner; the other
\* rows of the checklist (python, venv, gateway, vision keys) are left out
RunPreflightCheckInner ==
    /\ pc = "ready"
    /\ report' = IF openclaw_ok
                 THEN ok(compute_model_availability_report_inner(cli)) ELSE None
    /\ checks' = <<TranslatorRow(web_gateway_enabled, openclaw_ok, report'),
                   ReviewRow(web_gateway_enabled, openclaw_ok, report')>>
    /\ pc' = "done"
    /\ UNCHANGED <<cli, web_gateway_enabled, openclaw_ok>>
    /\ UNCHANGED <<availability_vars, fallback_vars, remediation_vars>>

NextPreflight == RunPreflightCheckInner

PreflightStatuses ==
    CliFailures
    \cup {Ok(EmptyStatus), Ok(StatusWith(Gpt52, <<OauthValid>>)),
          Ok(StatusWith(Gpt52, <<OauthExpiredProfile>>)),
          Ok(StatusWith(Glm5, <<ApiKeyZai>>))}

InitPreflight ==
    /\ cli \in [models_list :
                    CliFailures
                    \cup {Ok([models |-> JOther])}
                    \cup {Ok([models |-> JArr(a)]) :
                            a \in SeqsUpTo({ModelEntry(JStr(Gpt52), JBool(TRUE)),
                                            ModelEntry(JStr(Glm5), JBool(FALSE))},
                                           MaxModels)},
                translator_status : PreflightStatuses,
                review_status : PreflightStatuses]
    /\ web_gateway_enabled \in BOOLEAN
    /\ openclaw_ok \in BOOLEAN
    /\ report = NoResult
    /\ checks = NoResult
    /\ pc = "ready"
    /\ AvailabilityIdle
    /\ FallbackIdle
    /\ RemediationIdle

SpecPreflight == InitPreflight /\ [][NextPreflight]_vars

\* SpecRemediation: the fallback step of auto_fix_preflight, run up to MaxRuns
\* times with the same policy models.  Each openclaw command is a step of its
\* own and succeeds or fails; a command that fails leaves the configured list
\* as it was.  The other steps of auto_fix_preflight (venv, env template,
\* default and image models) do not touch the fallback list and are left out.
MaxConfig == 2

MaxRuns == 2

\* `models fallbacks list --json` succeeds: current, desired and the decision
ListFallbacks ==
    /\ pc \in {"ready", "done"}
    /\ runs < MaxRuns
    /\ runs' = runs + 1
    /\ current' = fallbacks_config
    /\ desired' = compute_fallbacks_with_kimi_defaults(current', kimi_model,
                       kimi_alt_model, fallback_model)
    /\ pc' = IF ShouldApply(desired', current') THEN "clear" ELSE "done"
    /\ issued' = <<>>
    /\ add_pos' = 0
    /\ UNCHANGED <<fallbacks_config, kimi_model, kimi_alt_model, fallback_model>>
    /\ UNCHANGED apply_result
    /\ UNCHANGED <<availability_vars, report_vars, preflight_vars>>

\* `models fallbacks list --json` fails: nothing is computed or applied
ListFallbacksFails ==
    /\ pc \in {"ready", "done"}
    /\ runs < MaxRuns
    /\ runs' = runs + 1
    /\ current' = <<>>
    /\ desired' = NoResult
    /\ pc' = "done"
    /\ issued' = <<>>
    /\ add_pos' = 0
    /\ UNCHANGED <<fallbacks_config, kimi_model, kimi_alt_model, fallback_model>>
    /\ UNCHANGED apply_result
    /\ UNCHANGED <<availability_vars, report_vars, preflight_vars>>

\* apply_fallbacks: `models fallbacks clear` succeeds
ClearFallbacks ==
    /\ pc = "clear"
    /\ issued' = Append(issued, ClearCmd)
    /\ fallbacks_config' = AfterClear(fallbacks_config)
    /\ add_pos' = 1
    /\ apply_result' = NoResult
    /\ pc' = "add"
    /\ UNCHANGED <<runs, fallback_vars>>
    /\ UNCHANGED <<availability_vars, report_vars, preflight_vars>>

\* apply_fallbacks: `models fallbacks clear` fails and `?` returns the error
ClearFallbacksFails ==
    /\ pc = "clear"
    /\ issued' = Append(issued, ClearCmd)
    /\ apply_result' = Err(<<"openclaw exited with code">>)
    /\ pc' = "done"
    /\ UNCHANGED <<fallbacks_config, add_pos, runs, fallback_vars>>
    /\ UNCHANGED <<availability_vars, report_vars, preflight_vars>>

\* apply_fallbacks: `models fallbacks add m` succeeds for the next entry
AddFallback ==
    /\ pc = "add"
    /\ LET pos == NextNonBlank(desired, add_pos) IN
       /\ pos <= Len(desired)
       /\ issued' = Append(issued, AddCmd(Trim(desired[pos])))
       /\ fallbacks_config' = AfterAdd(fallbacks_config, Trim(desired[pos]))
       /\ add_pos' = pos + 1
    /\ UNCHANGED <<pc, apply_result, runs, fallback_vars>>
    /\ UNCHANGED <<availability_vars, report_vars, preflight_vars>>

\* apply_fallbacks: `models fallbacks add m` fails and `?` returns the error
AddFallbackFails ==
    /\ pc = "add"
    /\ LET pos == NextNonBlank(desired, add_pos) IN
       /\ pos <= Len(desired)
       /\ issued' = Append(issued, AddCmd(Trim(desired[pos])))
       /\ add_pos' = pos
    /\ apply_result' = Err(<<"openclaw exited with code">>)
    /\ pc' = "done"
    /\ UNCHANGED <<fallbacks_config, runs, fallback_vars>>
    /\ UNCHANGED <<availability_vars, report_vars, preflight_vars>>

\* apply_fallbacks: the loop is over, Ok(())
ApplyFallbacksReturns ==
    /\ pc = "add"
    /\ NextNonBlank(desired, add_pos) > Len(desired)
    /\ apply_result' = Ok(<<>>)
    /\ pc' = "done"
    /\ UNCHANGED <<fallbacks_config, add_pos, issued, runs, fallback_vars>>
    /\ UNCHANGED <<availability_vars, report_vars, preflight_vars>>

NextRemediation ==
    \/ ListFallbacks
    \/ ListFallbacksFails
    \/ ClearFallbacks
    \/ ClearFallbacksFails
    \/ AddFallback
    \/ AddFallbackFails
    \/ ApplyFallbacksReturns

InitRemediation ==
    /\ fallbacks_config \in SeqsUpTo({Gpt52, Glm5, K2p5, Kimi25}, MaxConfig)
    /\ kimi_model \in {Kimi25, Glm5}
    /\ kimi_alt_model = K2p5
    /\ fallback_model \in {kimi_alt_model, Glm46v}
    /\ current = <<>>
    /\ desired = NoResult
    /\ add_pos = 0
    /\ issued = <<>>
    /\ apply_result = NoResult
    /\ runs = 0
    /\ pc = "ready"
    /\ AvailabilityIdle
    /\ ReportIdle
    /\ PreflightIdle

SpecRemediation == InitRemediation /\ [][NextRemediation]_vars

TypeOK == pc \in {"ready", "done", "again", "clear", "add"}

----------------------------------------------------------------------------
(* What the inputs say about a provider, read off the raw lists *)

States == {"ok", "cooldown", "unavailable", "expired", "unknown"}

RawProfiles == unwrap_or(as_array(models_status.profiles), <<>>)

RawUnusable == unwrap_or(as_array(models_status.unusableProfiles), <<>>)

NamesProvider(j, p) == j.t = "str" /\ j.v = p /\ Trim(p) # <<>>

ProfilesOf(p) == {i \in DOMAIN RawProfiles : NamesProvider(RawProfiles[i].provider, p)}

UnusableOf(p) == {i \in DOMAIN RawUnusable : NamesProvider(RawUnusable[i].provider, p)}

OauthProfilesOf(p) == {i \in ProfilesOf(p) : RawProfiles[i].type = JStr(<<"oauth">>)}

ApiKeyProfilesOf(p) == {i \in ProfilesOf(p) : RawProfiles[i].type = JStr(<<"api_key">>)}

HasValidOauth(p) ==
    \E i \in OauthProfilesOf(p) :
        RawProfiles[i].remainingMs.t = "int" /\ RawProfiles[i].remainingMs.v > 0

UntilsOf(p) ==
    {RawUnusable[i].until.v : i \in {k \in UnusableOf(p) : RawUnusable[k].until.t = "int"}}

MaxUntilOf(p) == CHOOSE m \in UntilsOf(p) : \A n \in UntilsOf(p) : n <= m

AllInCooldown(p) ==
    Cardinality(ProfilesOf(p)) > 0
    /\ Cardinality(UnusableOf(p)) >= Cardinality(ProfilesOf(p))

OauthSeenNoneValid(p) == OauthProfilesOf(p) # {} /\ ~HasValidOauth(p)

AuthUsable(p) ==
    IF OauthProfilesOf(p) # {} THEN HasValidOauth(p) ELSE ApiKeyProfilesOf(p) # {}

CatalogSays(model) ==
    IF model \in DOMAIN availability THEN Some(availability[model]) ELSE None

ExpectedState(model, p) ==
    IF CatalogSays(model) = Some(FALSE) THEN "unavailable"
    ELSE IF AllInCooldown(p) THEN "cooldown"
    ELSE IF OauthSeenNoneValid(p) THEN "expired"
    ELSE IF CatalogSays(model) = Some(TRUE) /\ AuthUsable(p) THEN "ok"
    ELSE "unknown"

Done == pc = "done"

RouteIdx == IF Done THEN DOMAIN result.route ELSE {}

----------------------------------------------------------------------------
\* C1: every route entry has exactly one of the five states, the first that
\* matches in the order unavailable (available == false), cooldown (all
\* profiles of the provider cooling down), expired (oauth seen, none valid),
\* ok (available == true and auth ok), unknown.
C1_StatePrecedence ==
    \A i \in RouteIdx :
        /\ result.route[i].state \in States
        /\ result.route[i].state =
               ExpectedState(result.route[i].model, result.route[i].provider)

\* an entry where two rules apply (unavailable and cooldown), next to a
\* cooldown entry of the same provider and an ok entry of another
C1_Witness ==
    /\ \E i \in RouteIdx :
           /\ result.route[i].state = "unavailable"
           /\ AllInCooldown(result.route[i].provider)
    /\ \E i \in RouteIdx : result.route[i].state = "cooldown"
    /\ \E i \in RouteIdx : result.route[i].state = "ok"

\* C2: a route entry whose model the availability index marks available ==
\* false has state unavailable, never ok, whatever the provider's auth and
\* cooldown summary is.
C2_UnavailableNeverOk ==
    \A i \in RouteIdx :
        (result.route[i].model \in DOMAIN availability
            /\ availability[result.route[i].model] = FALSE)
        => result.route[i].state = "unavailable"

\* an unavailable model of a provider whose api key alone would make it ok
C2_Witness ==
    \E i \in RouteIdx :
        /\ result.route[i].model \in DOMAIN availability
        /\ ~availability[result.route[i].model]
        /\ AuthUsable(result.route[i].provider)
        /\ ~AllInCooldown(result.route[i].provider)

\* C3 as stated: if a provider's cooldown count equals its profile count (both
\* > 0), every route entry of the provider has state cooldown and carries the
\* maximum until of the provider's unusable entries.
C3_Original ==
    \A i \in RouteIdx :
        LET p == result.route[i].provider IN
        (Cardinality(ProfilesOf(p)) > 0
            /\ Cardinality(UnusableOf(p)) = Cardinality(ProfilesOf(p)))
        => /\ result.route[i].state = "cooldown"
           /\ UntilsOf(p) # {} => result.route[i].cooldown_until_ms = Some(MaxUntilOf(p))

\* C3 amended: under the same condition every route entry of the provider whose
\* model is not marked available == false has state cooldown and carries the
\* maximum until of the provider's unusable entries (none when no entry has
\* one); an entry whose model is marked available == false has state
\* unavailable and carries no cooldown_until_ms.
C3_CooldownCarriesMaxUntil ==
    \A i \in RouteIdx :
        LET p == result.route[i].provider IN
        (Cardinality(ProfilesOf(p)) > 0
            /\ Cardinality(UnusableOf(p)) = Cardinality(ProfilesOf(p)))
        => IF CatalogSays(result.route[i].model) = Some(FALSE)
           THEN /\ result.route[i].state = "unavailable"
                /\ result.route[i].cooldown_until_ms = None
           ELSE /\ result.route[i].state = "cooldown"
                /\ result.route[i].cooldown_until_ms =
                       IF UntilsOf(p) = {} THEN None ELSE Some(MaxUntilOf(p))

\* two unusable entries with different until, the larger one first
C3_Witness ==
    /\ \E i \in RouteIdx :
           /\ result.route[i].state = "cooldown"
           /\ Cardinality(UntilsOf(result.route[i].provider)) = 2
           /\ Cardinality(ProfilesOf(result.route[i].provider)) = 2
    /\ Len(RawUnusable) = 2
    /\ RawUnusable[1].until.v > RawUnusable[2].until.v

\* C4 as stated: if a provider has only oauth profiles and none is valid, every
\* route entry of the provider has state expired and auth_expired Some(true).
C4_Original ==
    \A i \in RouteIdx :
        LET p == result.route[i].provider IN
        (ProfilesOf(p) # {} /\ OauthProfilesOf(p) = ProfilesOf(p) /\ ~HasValidOauth(p))
        => /\ result.route[i].state = "expired"
           /\ result.route[i].auth_expired = Some(TRUE)

\* C4 amended: under the same condition every route entry of the provider has
\* auth_expired Some(true), and has state expired unless its model is marked
\* available == false (state unavailable) or, failing that, the provider is
\* all-in-cooldown (state cooldown).
C4_ExpiredOauth ==
    \A i \in RouteIdx :
        LET p == result.route[i].provider IN
        (ProfilesOf(p) # {} /\ OauthProfilesOf(p) = ProfilesOf(p) /\ ~HasValidOauth(p))
        => /\ result.route[i].auth_expired = Some(TRUE)
           /\ result.route[i].state =
                  IF CatalogSays(result.route[i].model) = Some(FALSE) THEN "unavailable"
                  ELSE IF AllInCooldown(p) THEN "cooldown"
                  ELSE "expired"

\* an available model of a provider with two expired oauth profiles, only one
\* of them cooling down
C4_Witness ==
    \E i \in RouteIdx :
        LET p == result.route[i].provider IN
        /\ OauthProfilesOf(p) = ProfilesOf(p)
        /\ Cardinality(ProfilesOf(p)) = 2
        /\ Cardinality(UnusableOf(p)) = 1
        /\ CatalogSays(result.route[i].model) = Some(TRUE)
        /\ result.route[i].state = "expired"

\* C5 as stated: if a provider has only api-key profiles and a route model of it
\* is available, that entry has state ok and the agent is runnable_now.
C5_Original ==
    \A i \in RouteIdx :
        LET p == result.route[i].provider IN
        (ApiKeyProfilesOf(p) # {} /\ OauthProfilesOf(p) = {}
            /\ CatalogSays(result.route[i].model) = Some(TRUE))
        => result.route[i].state = "ok" /\ result.runnable_now

\* C5 amended: the same, provided the provider is not all-in-cooldown.
C5_ApiKeyOk ==
    \A i \in RouteIdx :
        LET p == result.route[i].provider IN
        (ApiKeyProfilesOf(p) # {} /\ OauthProfilesOf(p) = {}
            /\ CatalogSays(result.route[i].model) = Some(TRUE)
            /\ ~AllInCooldown(p))
        => result.route[i].state = "ok" /\ result.runnable_now

\* an api-key provider with a cooldown entry that does not cover all its profiles
C5_Witness ==
    \E i \in RouteIdx :
        LET p == result.route[i].provider IN
        /\ ApiKeyProfilesOf(p) = ProfilesOf(p)
        /\ Cardinality(ProfilesOf(p)) = 2
        /\ Cardinality(UnusableOf(p)) = 1
        /\ result.route[i].state = "ok"
        /\ i > 1

\* the route positions in state ok
OkIdx == {i \in RouteIdx : result.route[i].state = "ok"}

\* C6: runnable_now is true iff the route has an entry with state ok, and
\* first_runnable_model is the model of the first such entry in route order
\* (absent when there is none).
C6_RunnableIffOk ==
    Done =>
        /\ result.runnable_now <=> OkIdx # {}
        /\ result.first_runnable_model =
               IF OkIdx = {} THEN None
               ELSE Some(result.route[CHOOSE i \in OkIdx : \A j \in OkIdx : i <= j].model)

\* a route whose first entry is not ok and whose next two are
C6_Witness == OkIdx = {2, 3} /\ result.runnable_now

\* s is t without its leading and trailing whitespace
IsTrimOf(s, t) ==
    \E lo \in 1..(Len(t) + 1), hi \in 0..Len(t) :
        /\ s = SubSeq(t, lo, hi)
        /\ \A k \in DOMAIN t : (k < lo \/ k > hi) => t[k] \in Whitespace
        /\ s # <<>> => (s[1] \notin Whitespace /\ s[Len(s)] \notin Whitespace)

RouteItems == IF Done THEN <<result.default_model>> \o result.fallbacks ELSE <<>>

FirstPos(m) ==
    CHOOSE k \in DOMAIN RouteItems :
        /\ IsTrimOf(m, RouteItems[k])
        /\ \A j \in DOMAIN RouteItems : IsTrimOf(m, RouteItems[j]) => k <= j

\* C7: the route is the default model followed by the fallbacks, each trimmed,
\* blanks dropped, repeats dropped: no blank model, no model twice, every
\* non-blank item present, in the order of first occurrence.
C7_RouteOrder ==
    /\ \A i \in RouteIdx :
           /\ result.route[i].model # <<>>
           /\ \E k \in DOMAIN RouteItems : IsTrimOf(result.route[i].model, RouteItems[k])
    /\ \A k \in DOMAIN RouteItems :
           (\E c \in DOMAIN RouteItems[k] : RouteItems[k][c] \notin Whitespace)
           => \E i \in RouteIdx : IsTrimOf(result.route[i].model, RouteItems[k])
    /\ \A i, j \in RouteIdx :
           i < j => /\ result.route[i].model # result.route[j].model
                    /\ FirstPos(result.route[i].model) < FirstPos(result.route[j].model)

\* a blank default, then the same padded fallback twice
C7_Witness ==
    /\ Len(RouteItems) = 3
    /\ Len(result.route) = 1
    /\ \E k \in DOMAIN RouteItems : RouteItems[k] = <<>>
    /\ \E k \in DOMAIN RouteItems :
           RouteItems[k] # <<>> /\ RouteItems[k] # result.route[1].model

\* the reason a provider of the route is to be given, by the precedence
ProviderAt(i) == result.route[i].provider

FirstOcc == {i \in RouteIdx : \A j \in RouteIdx : j < i => ProviderAt(j) # ProviderAt(i)}

ExpectedKind(p) ==
    IF AllInCooldown(p) THEN "cooldown"
    ELSE IF \E i \in RouteIdx : ProviderAt(i) = p /\ result.route[i].state = "unavailable"
    THEN "unavailable"
    ELSE IF OauthSeenNoneValid(p) THEN "expired"
    ELSE IF ProfilesOf(p) = {} THEN "no_profiles"
    ELSE IF \A i \in RouteIdx : ProviderAt(i) = p => result.route[i].state = "unknown"
    THEN "unknown"
    ELSE "none"

ReasonIs(r, p, kind) ==
    CASE kind = "cooldown" ->
            \/ r = p \o <<" is in cooldown.">>
            \/ /\ Len(r) > Len(p) + 1
               /\ SubSeq(r, 1, Len(p) + 1) = p \o <<" is in cooldown until ">>
      [] kind = "unavailable" -> r = p \o <<" models are unavailable.">>
      [] kind = "expired"     -> r = p \o <<" OAuth appears expired or missing.">>
      [] kind = "no_profiles" -> r = p \o <<" has no auth profiles configured.">>
      [] kind = "unknown"     -> r = p \o <<" availability is unknown.">>
      [] OTHER                -> FALSE

Reasoned == {i \in FirstOcc : ExpectedKind(ProviderAt(i)) # "none"}

\* C8: when the agent is not runnable, blocked_reasons walks the route in order,
\* handles each distinct provider once at its first occurrence and emits for it
\* only the first applicable reason of: all-in-cooldown, some entry unavailable,
\* oauth expired, no auth profiles, all entries unknown.
C8_ReasonPerProviderInOrder ==
    (Done /\ ~result.runnable_now /\ Reasoned # {}) =>
        /\ Len(result.blocked_reasons) = Cardinality(Reasoned)
        /\ \A i \in Reasoned :
               ReasonIs(result.blocked_reasons[Cardinality({j \in Reasoned : j <= i})],
                        ProviderAt(i), ExpectedKind(ProviderAt(i)))

\* route openai-codex, zai, openai-codex; openai-codex is all-in-cooldown and
\* has an unavailable entry, so two of its rules apply
C8_Witness ==
    /\ Done /\ ~result.runnable_now
    /\ Len(result.route) = 3
    /\ ProviderAt(1) = ProviderAt(3) /\ ProviderAt(1) # ProviderAt(2)
    /\ AllInCooldown(ProviderAt(1))
    /\ result.route[1].state = "unavailable"
    /\ Len(result.blocked_reasons) = 2

\* C9: whenever runnable_now is true, blocked_reasons is empty, however many
\* route entries are in a blocked state.
C9_NoReasonsWhenRunnable ==
    (Done /\ result.runnable_now) => result.blocked_reasons = <<>>

\* runnable although two entries are blocked
C9_Witness ==
    /\ Done /\ result.runnable_now
    /\ Cardinality({i \in RouteIdx :
                       result.route[i].state \in {"cooldown", "unavailable", "expired"}}) = 2

\* reading a reason text back: decimal numbers and timestamps
Digits == {DigitChars[d] : d \in DOMAIN DigitChars}

IsDigits(s) == s # <<>> /\ \A k \in DOMAIN s : s[k] \in Digits

DigitValue(c) == CHOOSE d \in 0..9 : DigitChars[d + 1] = c

RECURSIVE ParseNat(_)
ParseNat(s) ==
    IF s = <<>> THEN 0
    ELSE ParseNat(SubSeq(s, 1, Len(s) - 1)) * 10 + DigitValue(s[Len(s)])

IsDecimalOf(s, n) ==
    IF s # <<>> /\ Head(s) = "-"
    THEN IsDigits(Tail(s)) /\ n = -ParseNat(Tail(s))
    ELSE IsDigits(s) /\ n = ParseNat(s)

\* "YYYY-MM-DD HH:MM:SS", or the raw number when the time cannot be formatted
IsTimestampText(m, n) ==
    \/ /\ Len(m) = 19
       /\ \A k \in DOMAIN m :
              IF k \in {5, 8} THEN m[k] = "-"
              ELSE IF k = 11 THEN m[k] = " "
              ELSE IF k \in {14, 17} THEN m[k] = ":"
              ELSE m[k] \in Digits
    \/ IsDecimalOf(m, n)

IsCooldownUntilReason(r, p, n) ==
    \E j \in DOMAIN r :
        /\ j > Len(p) + 1 /\ j < Len(r)
        /\ SubSeq(r, 1, Len(p) + 1) = p \o <<" is in cooldown until ">>
        /\ IsTimestampText(SubSeq(r, Len(p) + 2, j - 1), n)
        /\ r[j] = " ("
        /\ IsDecimalOf(SubSeq(r, j + 1, Len(r) - 1), n)
        /\ r[Len(r)] = ")."

\* C10: when the agent is not runnable and a route provider is all-in-cooldown,
\* blocked_reasons holds "{provider} is in cooldown until {timestamp} ({raw_ms})."
\* with the raw maximum until when one is known, and "{provider} is in
\* cooldown." when no unusable entry carried an until.
C10_CooldownReasonText ==
    (Done /\ ~result.runnable_now) =>
        \A i \in RouteIdx :
            LET p == ProviderAt(i) IN
            AllInCooldown(p) =>
                \E k \in DOMAIN result.blocked_reasons :
                    IF UntilsOf(p) = {}
                    THEN result.blocked_reasons[k] = p \o <<" is in cooldown.">>
                    ELSE IsCooldownUntilReason(result.blocked_reasons[k], p, MaxUntilOf(p))

\* west of UTC, one provider cooling down until 12345, another without any until
C10_Witness ==
    /\ Done /\ ~result.runnable_now
    /\ tz_offset_secs < 0
    /\ \E i, j \in RouteIdx :
           /\ AllInCooldown(ProviderAt(i)) /\ AllInCooldown(ProviderAt(j))
           /\ UntilsOf(ProviderAt(i)) = {12345}
           /\ UntilsOf(ProviderAt(j)) = {}
    /\ Len(result.blocked_reasons) = 2

\* C11: when the agent is not runnable and no provider of the route gets a
\* reason, blocked_reasons is exactly ["No runnable route model found."]; so
\* blocked_reasons is never empty when runnable_now is false.
C11_FallbackReason ==
    (Done /\ ~result.runnable_now) =>
        /\ result.blocked_reasons # <<>>
        /\ Reasoned = {} =>
               result.blocked_reasons = <<<<"No runnable route model found.">>>>

\* a status without default model and without fallbacks, although profiles and
\* cooldown records exist
C11_Witness ==
    /\ Done /\ ~result.runnable_now
    /\ Reasoned = {}
    /\ RawProfiles # <<>> /\ RawUnusable # <<>>
    /\ result.blocked_reasons = <<<<"No runnable route model found.">>>>

----------------------------------------------------------------------------
(* What the fallback list and the policy arguments say, read off the inputs *)

FallbacksDone == pc \in {"done", "again"}

Trimmed(items) == [i \in DOMAIN items |-> Trim(items[i])]

\* the positions holding the first occurrence of their text
FirstIdx(items) == {i \in DOMAIN items : \A j \in 1..(i - 1) : items[j] # items[i]}

NonBlankIdx(items) == {i \in DOMAIN items : items[i] # <<>>}

\* the texts at the positions S, in ascending order of position
RECURSIVE Pick(_, _)
Pick(items, S) ==
    IF S = {} THEN <<>>
    ELSE LET m == CHOOSE i \in S : \A j \in S : i <= j
         IN  <<items[m]>> \o Pick(items, S \ {m})

HasGlmPrefix(m) == Len(m) >= 3 /\ m[1] = "zai" /\ m[2] = "/" /\ m[3] = "glm-"

PolicyArgs == Trimmed(<<kimi_model, kimi_alt_model, fallback_model>>)

ExpectedHead == Pick(PolicyArgs, FirstIdx(PolicyArgs) \cap NonBlankIdx(PolicyArgs))

HeadSet == {PolicyArgs[i] : i \in NonBlankIdx(PolicyArgs)}

\* head ++ non_glm ++ glm over the given reading of the entries of current
ExpectedOrder(items, idx) ==
    ExpectedHead
    \o Pick(items, {i \in idx : items[i] \notin HeadSet /\ ~HasGlmPrefix(items[i])})
    \o Pick(items, {i \in idx : items[i] \notin HeadSet /\ HasGlmPrefix(items[i])})

\* C12 as stated: with a non-blank policy argument the result is head ++ non_glm
\* ++ glm, where non_glm and glm are taken from the entries of current as they
\* are, by first occurrence.
C12_Original ==
    (FallbacksDone /\ ExpectedHead # <<>>) =>
        desired = ExpectedOrder(current, FirstIdx(current))

\* C12 amended: with a non-blank policy argument the result is head ++ non_glm
\* ++ glm, where head is [kimi, kimi_alt, fallback] trimmed, blanks dropped,
\* deduplicated by first occurrence, and non_glm and glm are taken from the
\* entries of current after trimming each and dropping the blank ones: those
\* not equal to a head element and not starting with "zai/glm-", then those
\* starting with it, each in the order of first occurrence in current.
C12_HeadNonGlmGlm ==
    (FallbacksDone /\ ExpectedHead # <<>>) =>
        desired = ExpectedOrder(Trimmed(current),
                                FirstIdx(Trimmed(current)) \cap NonBlankIdx(Trimmed(current)))

\* a padded GLM entry in front of a policy model and of another model, with
\* two distinct policy models
C12_Witness ==
    /\ pc = "done"
    /\ Len(ExpectedHead) = 2
    /\ Len(current) = 3
    /\ current[1] # Trim(current[1]) /\ HasGlmPrefix(Trim(current[1]))
    /\ current[2] \in HeadSet
    /\ current[3] \notin HeadSet /\ ~HasGlmPrefix(current[3]) /\ Trim(current[3]) # <<>>
    /\ Len(desired) = 4

\* C13 as stated: with a non-empty head, no entry of the result starting with
\* "zai/glm-" precedes an entry that does not start with it.
C13_Original ==
    (FallbacksDone /\ ExpectedHead # <<>>) =>
        \A i, j \in DOMAIN desired :
            i < j => ~(HasGlmPrefix(desired[i]) /\ ~HasGlmPrefix(desired[j]))

\* C13 amended: with a non-empty head, the result starts with the head (the
\* policy models, also one that itself starts with "zai/glm-"), and among the
\* entries behind the head no entry starting with "zai/glm-" precedes an entry
\* that does not start with it.
C13_HeadFirstGlmLast ==
    (FallbacksDone /\ ExpectedHead # <<>>) =>
        /\ Len(desired) >= Len(ExpectedHead)
        /\ SubSeq(desired, 1, Len(ExpectedHead)) = ExpectedHead
        /\ \A i, j \in DOMAIN desired :
               (Len(ExpectedHead) < i /\ i < j)
               => ~(HasGlmPrefix(desired[i]) /\ ~HasGlmPrefix(desired[j]))

\* a GLM policy model in the head, and a GLM entry of current in front of
\* another model
C13_Witness ==
    /\ pc = "done"
    /\ \E k \in DOMAIN ExpectedHead : HasGlmPrefix(ExpectedHead[k])
    /\ \E k \in DOMAIN ExpectedHead : ~HasGlmPrefix(ExpectedHead[k])
    /\ \E i, j \in DOMAIN current :
           /\ i < j
           /\ HasGlmPrefix(current[i]) /\ current[i] \notin HeadSet
           /\ ~HasGlmPrefix(current[j]) /\ current[j] \notin HeadSet
           /\ Trim(current[j]) # <<>>
    /\ Len(desired) = Len(ExpectedHead) + 2

\* C14: compute_fallbacks_with_kimi_defaults is idempotent: for every current
\* list and every policy arguments (all blank too), the call on its own result
\* with the same policy arguments returns that result unchanged.
C14_Idempotent == [][pc = "done" => desired' = desired]_vars

\* the first call changed the list (moved a GLM entry, dropped a repeat), and
\* the second call was made
C14_Witness ==
    /\ pc = "again"
    /\ Len(current) = 3
    /\ Len(desired) = 3
    /\ desired # current
    /\ \E i \in DOMAIN desired : HasGlmPrefix(desired[i])

\* C15: the result holds every distinct model of current (its non-blank
\* entries, trimmed) and every non-blank policy argument, and holds no model
\* twice.
C15_NoDropNoDuplicate ==
    FallbacksDone =>
        /\ \A i, j \in DOMAIN desired : i # j => desired[i] # desired[j]
        /\ {desired[i] : i \in DOMAIN desired} =
               ({Trim(current[i]) : i \in DOMAIN current} \cup HeadSet) \ {<<>>}

\* a list with a repeated entry and a policy model, the policy naming one
\* model twice
C15_Witness ==
    /\ pc = "done"
    /\ Len(current) = 3
    /\ current[1] = current[3] /\ current[1] \notin HeadSet
    /\ current[2] \in HeadSet
    /\ PolicyArgs[2] = PolicyArgs[3] /\ PolicyArgs[1] # <<>>
    /\ Len(desired) = 3

\* C16 as stated: with all three policy arguments blank the result is the
\* deduplicated current list in its original order.
C16_Original ==
    (FallbacksDone /\ ExpectedHead = <<>>) =>
        desired = Pick(current, FirstIdx(current))

\* C16 amended: with all three policy arguments blank the result is the
\* current list with each entry trimmed, the blank entries dropped and the
\* repeats dropped, in its original order: entries starting with "zai/glm-"
\* keep their place and are not moved to the end.
C16_BlankPolicyKeepsOrder ==
    (FallbacksDone /\ ExpectedHead = <<>>) =>
        desired = Pick(Trimmed(current),
                       FirstIdx(Trimmed(current)) \cap NonBlankIdx(Trimmed(current)))

\* blank policy arguments, a GLM entry in front of another model
C16_Witness ==
    /\ pc = "done"
    /\ ExpectedHead = <<>>
    /\ Len(desired) = 3
    /\ HasGlmPrefix(desired[1]) /\ ~HasGlmPrefix(desired[2]) /\ HasGlmPrefix(desired[3])

----------------------------------------------------------------------------
AgentAvailabilityFields ==
    {"agent_id", "default_model", "fallbacks", "route", "runnable_now",
     "first_runnable_model", "blocked_reasons"}

RouteModelStatusFields ==
    {"model", "provider", "available", "state", "cooldown_until_ms", "auth_expired",
     "note"}

\* the invariants of an AgentAvailability record
WellFormed(a) ==
    /\ DOMAIN a = AgentAvailabilityFields
    /\ a.runnable_now \in BOOLEAN
    /\ \A i \in DOMAIN a.route :
           LET r == a.route[i] IN
           /\ DOMAIN r = RouteModelStatusFields
           /\ r.model # <<>> /\ r.model = Trim(r.model)
           /\ \A j \in DOMAIN a.route : j # i => a.route[j].model # r.model
           /\ r.state \in States
           /\ r.available \in {None, Some(TRUE), Some(FALSE)}
           /\ r.cooldown_until_ms # None => r.state = "cooldown"
           /\ r.auth_expired \in {None, Some(TRUE), Some(FALSE)}
           /\ r.state = "ok" => (r.available = Some(TRUE) /\ r.auth_expired # Some(TRUE))
    /\ a.runnable_now <=> \E i \in DOMAIN a.route : a.route[i].state = "ok"
    /\ a.runnable_now <=> a.first_runnable_model # None
    /\ a.first_runnable_model # None =>
           \E i \in DOMAIN a.route :
               a.route[i].model = a.first_runnable_model.v /\ a.route[i].state = "ok"
    /\ a.runnable_now <=> a.blocked_reasons = <<>>

\* C17: compute_agent_availability returns for every shape of models_status
\* (missing or wrong-typed resolvedDefault, defaultModel, fallbacks, profiles,
\* unusableProfiles, entries without provider, type, remainingMs, until) and
\* every availability index an AgentAvailability that satisfies the record's
\* invariants; profiles and cooldown records with a blank or missing provider
\* count for no provider, so a route entry with a blank provider has no auth.
C17_TotalWellFormed ==
    Done =>
        /\ WellFormed(result)
        /\ \A i \in RouteIdx :
               LET r == result.route[i] IN
               /\ r.state = ExpectedState(r.model, r.provider)
               /\ Trim(r.provider) = <<>> =>
                      /\ r.state \in {"unavailable", "unknown"}
                      /\ r.auth_expired = None
                      /\ r.cooldown_until_ms = None

\* resolvedDefault is "/glm-5" (blank provider), marked available; fallbacks
\* and unusableProfiles are not arrays; the profiles hold an api key without
\* provider name and an oauth profile with a wrong-typed remainingMs
C17_Witness ==
    /\ Done
    /\ models_status.fallbacks = JOther
    /\ models_status.unusableProfiles = JOther
    /\ Len(RawProfiles) = 2
    /\ RawProfiles[1].provider = JStr(<<>>)
    /\ RawProfiles[2].remainingMs = JOther
    /\ Len(result.route) = 1
    /\ result.route[1].provider = <<>>
    /\ result.route[1].available = Some(TRUE)
    /\ result.route[1].state = "unknown"
    /\ result.route[1].note = Some(<<"No auth profiles found for this provider.">>)

\* the outcome of the three CLI calls of one report computation
CallFailed(outcome) == outcome.t = "err"

AnyCallFailed ==
    \/ CallFailed(cli.models_list)
    \/ CallFailed(cli.translator_status)
    \/ CallFailed(cli.review_status)

\* the availability index a models list document gives: the keys with a
\* boolean `available`, the last entry of a key deciding
CatalogOf(doc) ==
    LET arr  == IF doc.models.t = "arr" THEN doc.models.v ELSE <<>>
        good == {i \in DOMAIN arr : arr[i].key.t = "str" /\ arr[i].available.t = "bool"}
        keys == {arr[i].key.v : i \in good}
    IN  [k \in keys |->
            arr[CHOOSE i \in good : arr[i].key.v = k
                                     /\ \A j \in good : arr[j].key.v = k => j <= i].available.v]

\* C18: when one of the CLI calls of compute_model_availability_report_inner
\* (models list, translator-core status, review-core status) fails, the call
\* returns the failure and no report, so no AgentAvailability exists for any
\* agent; a report that is returned holds for each agent the AgentAvailability
\* computed from the documents that were fetched.
C18_NoReportOnFailure ==
    pc = "done" =>
        /\ AnyCallFailed <=> report.t = "err"
        /\ report.t = "err" => report.e \in {f.e : f \in CliFailures}
        /\ report.t = "ok" =>
               /\ DOMAIN report.v.agents = {TranslatorCore, ReviewCore}
               /\ report.v.agents[TranslatorCore] =
                      compute_agent_availability(TranslatorCore, cli.translator_status.v,
                                                 CatalogOf(cli.models_list.v))
               /\ report.v.agents[ReviewCore] =
                      compute_agent_availability(ReviewCore, cli.review_status.v,
                                                 CatalogOf(cli.models_list.v))

\* the models list and the translator-core status were fetched, the
\* translator-core route would be runnable, and the review-core status call
\* failed
C18_Witness ==
    /\ pc = "done"
    /\ ~CallFailed(cli.models_list) /\ ~CallFailed(cli.translator_status)
    /\ CallFailed(cli.review_status)
    /\ compute_agent_availability(TranslatorCore, cli.translator_status.v,
                                  CatalogOf(cli.models_list.v)).runnable_now
    /\ report.t = "err"

\* the providers named by a profile or by a cooldown record
NamedProviders ==
    {RawProfiles[i].provider.v :
        i \in {k \in DOMAIN RawProfiles :
                  RawProfiles[k].provider.t = "str" /\ Trim(RawProfiles[k].provider.v) # <<>>}}
    \cup
    {RawUnusable[i].provider.v :
        i \in {k \in DOMAIN RawUnusable :
                  RawUnusable[k].provider.t = "str" /\ Trim(RawUnusable[k].provider.v) # <<>>}}

\* C19: provider_summaries_from_models_status gives per provider:
\* total_profiles = the number of its profiles; oauth_seen / api_key_seen = a
\* profile of that type exists; oauth_has_valid = some oauth profile has
\* remainingMs > 0 (a later invalid one does not reset it); cooldown_profiles =
\* the number of its unusable entries, whatever total_profiles is;
\* cooldown_until_ms = the largest until of those entries, absent when none has
\* one (an entry without until is still counted).
C19_ProviderSummaries ==
    Done =>
        /\ DOMAIN result = NamedProviders
        /\ \A p \in NamedProviders :
               /\ result[p].total_profiles = Cardinality(ProfilesOf(p))
               /\ result[p].oauth_seen = (OauthProfilesOf(p) # {})
               /\ result[p].api_key_seen = (ApiKeyProfilesOf(p) # {})
               /\ result[p].oauth_has_valid = HasValidOauth(p)
               /\ result[p].cooldown_profiles = Cardinality(UnusableOf(p))
               /\ result[p].cooldown_until_ms =
                      IF UntilsOf(p) = {} THEN None ELSE Some(MaxUntilOf(p))

\* a valid oauth profile followed by an expired one of the same provider; a
\* cooldown record without until for a provider without profiles, then one
\* with until for the other provider
C19_Witness ==
    /\ Done
    /\ RawProfiles = <<OauthValid, OauthExpiredProfile>>
    /\ Len(RawUnusable) = 2
    /\ RawUnusable[1] = Unusable(JStr(Zai), JAbsent)
    /\ RawUnusable[2].provider = JStr(OpenaiCodex)
    /\ result[OpenaiCodex].oauth_has_valid
    /\ result[Zai].total_profiles = 0
    /\ result[Zai].cooldown_profiles = 1
    /\ result[Zai].cooldown_until_ms = None

\* C20: a provider with at least one unusable (cooldown) entry and no auth
\* profile is never treated as all-in-cooldown: none of its route entries has
\* state cooldown or a cooldown_until_ms, no cooldown reason is given for it
\* (when the agent is blocked its reason is that its models are unavailable or
\* that it has no auth profiles), and the AgentAvailability is well-formed.
C20_CooldownWithoutProfiles ==
    Done =>
        \A i \in RouteIdx :
            LET p == ProviderAt(i) IN
            (UnusableOf(p) # {} /\ ProfilesOf(p) = {}) =>
                /\ result.route[i].state \in {"unavailable", "unknown"}
                /\ result.route[i].cooldown_until_ms = None
                /\ \A k \in DOMAIN result.blocked_reasons :
                       ~ReasonIs(result.blocked_reasons[k], p, "cooldown")
                /\ ~result.runnable_now =>
                       \E k \in DOMAIN result.blocked_reasons :
                           \/ ReasonIs(result.blocked_reasons[k], p, "unavailable")
                           \/ ReasonIs(result.blocked_reasons[k], p, "no_profiles")
                /\ WellFormed(result)

\* two cooldown records with until for a provider without profiles, whose
\* model is available
C20_Witness ==
    /\ Done /\ ~result.runnable_now
    /\ \E i \in RouteIdx :
           /\ ProfilesOf(ProviderAt(i)) = {}
           /\ Cardinality(UnusableOf(ProviderAt(i))) = 2
           /\ UntilsOf(ProviderAt(i)) # {}
           /\ result.route[i].available = Some(TRUE)
           /\ result.route[i].state = "unknown"
           /\ \E k \in DOMAIN result.blocked_reasons :
                  ReasonIs(result.blocked_reasons[k], ProviderAt(i), "no_profiles")

\* C21: in every route entry cooldown_until_ms is set only when the state is
\* cooldown, and is then the provider's cooldown_until_ms (the largest until of
\* its unusable entries, none when no entry has one); an entry in any other
\* state, also an unavailable one of a provider that is all-in-cooldown,
\* carries none.
C21_UntilOnlyInCooldown ==
    \A i \in RouteIdx :
        result.route[i].cooldown_until_ms =
            IF result.route[i].state = "cooldown" /\ UntilsOf(ProviderAt(i)) # {}
            THEN Some(MaxUntilOf(ProviderAt(i)))
            ELSE None

\* a provider that is all-in-cooldown with a known until: its first model is
\* unavailable and carries nothing, its second is in cooldown and carries it
C21_Witness ==
    \E i, j \in RouteIdx :
        /\ ProviderAt(i) = ProviderAt(j)
        /\ AllInCooldown(ProviderAt(i)) /\ UntilsOf(ProviderAt(i)) # {}
        /\ result.route[i].state = "unavailable"
        /\ result.route[i].cooldown_until_ms = None
        /\ result.route[j].state = "cooldown"
        /\ result.route[j].cooldown_until_ms # None

\* the positions of '/' in a model identifier
SlashIdx(m) == {k \in DOMAIN m : m[k] = "/"}

FirstSlash(m) == CHOOSE k \in SlashIdx(m) : \A j \in SlashIdx(m) : k <= j

\* C22: the provider of a route entry is the text of the model identifier
\* before its first '/', and is the empty string when the identifier has no
\* '/'.
C22_ProviderBeforeSlash ==
    \A i \in RouteIdx :
        result.route[i].provider =
            IF SlashIdx(result.route[i].model) = {} THEN <<>>
            ELSE SubSeq(result.route[i].model, 1, FirstSlash(result.route[i].model) - 1)

\* the note of a route entry, with the given text for a model that the
\* availability index does not hold
ExpectedNote(i, notFoundText) ==
    IF CatalogSays(result.route[i].model) = None THEN Some(notFoundText)
    ELSE IF /\ CatalogSays(result.route[i].model) = Some(TRUE)
            /\ ~AuthUsable(ProviderAt(i))
            /\ ProfilesOf(ProviderAt(i)) = {}
    THEN Some(<<"No auth profiles found for this provider.">>)
    ELSE None

\* C23 as stated: the note is "Model not found in catalog." when the model is
\* absent from the availability index; otherwise "No auth profiles found for
\* this provider." when available == true, auth_ok is false and the provider
\* has no profiles; otherwise absent.
C23_Original ==
    \A i \in RouteIdx :
        result.route[i].note = ExpectedNote(i, <<"Model not found in catalog.">>)

\* C23 amended: the same, with the text "Model not found in `openclaw models
\* list` output." for a model absent from the availability index.
C23_Note ==
    \A i \in RouteIdx :
        result.route[i].note =
            ExpectedNote(i, <<"Model not found in ", "U+0060", "openclaw models list",
                              "U+0060", " output.">>)

\* a route of three models without any profile: one unknown to the index,
\* one marked available, one marked unavailable
C23_Witness ==
    /\ Done /\ Len(result.route) = 3
    /\ RawProfiles = <<>>
    /\ \E i, j, k \in RouteIdx :
           /\ result.route[i].available = None /\ result.route[i].note # None
           /\ result.route[j].available = Some(TRUE)
           /\ result.route[j].note = Some(<<"No auth profiles found for this provider.">>)
           /\ result.route[k].available = Some(FALSE) /\ result.route[k].note = None

\* the default model the status document gives
GivenDefault ==
    IF models_status.resolvedDefault.t = "str" THEN models_status.resolvedDefault.v
    ELSE IF models_status.defaultModel.t = "str" THEN models_status.defaultModel.v
    ELSE <<>>

IsBlank(text) == \A k \in DOMAIN text : text[k] \in Whitespace

RawFallbacks == unwrap_or(as_array(models_status.fallbacks), <<>>)

\* the positions of the fallbacks that are non-blank strings
NonBlankFallbacks ==
    {k \in DOMAIN RawFallbacks : RawFallbacks[k].t = "str" /\ ~IsBlank(RawFallbacks[k].v)}

\* C24: the default model is models_status.resolvedDefault, else
\* models_status.defaultModel when no resolved default is given, else the
\* empty string; a non-blank default is the first model of the route, and with
\* a blank default the route starts with the first non-blank fallback.
C24_DefaultModel ==
    Done =>
        /\ result.default_model = GivenDefault
        /\ ~IsBlank(GivenDefault) =>
               /\ result.route # <<>>
               /\ IsTrimOf(result.route[1].model, GivenDefault)
        /\ (IsBlank(GivenDefault) /\ NonBlankFallbacks # {}) =>
               /\ result.route # <<>>
               /\ IsTrimOf(result.route[1].model,
                           RawFallbacks[CHOOSE k \in NonBlankFallbacks :
                                            \A j \in NonBlankFallbacks : k <= j].v)
        /\ (IsBlank(GivenDefault) /\ NonBlankFallbacks = {}) => result.route = <<>>

\* a resolvedDefault of one space next to a defaultModel: the blank resolved
\* default is taken, and the route starts with the second fallback, the first
\* being blank
C24_Witness ==
    /\ Done
    /\ models_status.resolvedDefault = JStr(<<" ">>)
    /\ models_status.defaultModel.t = "str"
    /\ result.default_model = <<" ">>
    /\ Len(RawFallbacks) = 2 /\ NonBlankFallbacks = {2}
    /\ Len(result.route) = 1
    /\ result.route[1].model = RawFallbacks[2].v

----------------------------------------------------------------------------
(* The model rows of the preflight checklist *)

IsInfix(x, s) ==
    \E i \in 0..(Len(s) - Len(x)) : SubSeq(s, i + 1, i + Len(x)) = x

HasAgent(agent) == report.t = "some" /\ agent \in DOMAIN report.v.agents

RunnableAgent(agent) == HasAgent(agent) /\ report.v.agents[agent].runnable_now

\* C25: with web gateway mode off the translator-core row is "pass" exactly
\* when the report holds a translator-core availability that is runnable now
\* and "blocker" otherwise, its message carrying the blocked reasons joined by
\* a space when the availability exists; the review-core row is "pass" under
\* the same condition on review-core and "warning" otherwise; the review-core
\* row is never "blocker".
C25_ModelRows ==
    pc = "done" =>
        /\ checks[2].status # "blocker"
        /\ ~web_gateway_enabled =>
            /\ checks[1].key = "models_translator_core"
            /\ checks[1].status =
                   IF RunnableAgent(TranslatorCore) THEN "pass" ELSE "blocker"
            /\ HasAgent(TranslatorCore) =>
                   IsInfix(join(report.v.agents[TranslatorCore].blocked_reasons,
                                <<" ">>),
                           checks[1].message)
            /\ checks[2].key = "models_review_core"
            /\ checks[2].status =
                   IF RunnableAgent(ReviewCore) THEN "pass" ELSE "warning"

C25_Witness ==
    /\ pc = "done"
    /\ ~web_gateway_enabled
    /\ HasAgent(TranslatorCore)
    /\ ~RunnableAgent(TranslatorCore)
    /\ report.v.agents[TranslatorCore].blocked_reasons # <<>>
    /\ checks[1].status = "blocker"
    /\ RunnableAgent(ReviewCore)
    /\ checks[2].status = "pass"

----------------------------------------------------------------------------
(* blocked_reasons against the providers of the route *)

RouteProviders == {ProviderAt(i) : i \in RouteIdx}

ReasonTails ==
    {" is in cooldown.", " is in cooldown until ", " models are unavailable.",
     " OAuth appears expired or missing.", " has no auth profiles configured.",
     " availability is unknown."}

\* r is a reason about provider p: p, then one of the reason texts
ReasonAbout(r, p) ==
    /\ Len(r) > Len(p)
    /\ SubSeq(r, 1, Len(p)) = p
    /\ r[Len(p) + 1] \in ReasonTails

ReasonsAbout(p) ==
    {k \in DOMAIN result.blocked_reasons : ReasonAbout(result.blocked_reasons[k], p)}

FallbackReason == <<"No runnable route model found.">>

HasFallbackReason ==
    \E k \in DOMAIN result.blocked_reasons : result.blocked_reasons[k] = FallbackReason

\* C26: when the agent is not runnable and its route is not empty,
\* blocked_reasons holds exactly one reason for each distinct provider of the
\* route (a provider none of the first four rules covers has all its entries
\* unknown), so its length is the number of distinct route providers; the
\* fallback reason appears exactly when the route is empty.
C26_OneReasonPerProvider ==
    (Done /\ ~result.runnable_now) =>
        /\ result.route # <<>> =>
               /\ Len(result.blocked_reasons) = Cardinality(RouteProviders)
               /\ \A p \in RouteProviders : Cardinality(ReasonsAbout(p)) = 1
               /\ \A i \in RouteIdx : ExpectedKind(ProviderAt(i)) # "none"
        /\ HasFallbackReason <=> result.route = <<>>

\* two providers, the second with auth profiles and entries the catalog does
\* not list: only the last rule gives it a reason
C26_Witness ==
    /\ Done /\ ~result.runnable_now
    /\ Cardinality(RouteProviders) = 2
    /\ Len(result.route) = 3
    /\ \E i \in RouteIdx : ExpectedKind(ProviderAt(i)) = "unknown"
    /\ Len(result.blocked_reasons) = 2

EntriesOf(p) == {i \in RouteIdx : ProviderAt(i) = p}

\* C27: a provider that is all-in-cooldown gets the cooldown reason even when
\* every one of its route entries is in state unavailable: the reasons check
\* cooldown before unavailable, the entry states check unavailable before
\* cooldown.
C27_CooldownReasonOverUnavailable ==
    (Done /\ ~result.runnable_now) =>
        \A p \in RouteProviders :
            (AllInCooldown(p)
             /\ \A i \in EntriesOf(p) : result.route[i].state = "unavailable")
            => /\ \A k \in ReasonsAbout(p) :
                      ReasonIs(result.blocked_reasons[k], p, "cooldown")
               /\ ReasonsAbout(p) # {}

C27_Witness ==
    /\ Done /\ ~result.runnable_now
    /\ \E p \in RouteProviders :
           /\ AllInCooldown(p)
           /\ UntilsOf(p) # {}
           /\ \A i \in EntriesOf(p) :
                  /\ result.route[i].state = "unavailable"
                  /\ result.route[i].cooldown_until_ms = None
           /\ \E k \in ReasonsAbout(p) :
                  ReasonIs(result.blocked_reasons[k], p, "cooldown")

----------------------------------------------------------------------------
(* The order of the auth entries *)

\* C28: the result of compute_agent_availability does not depend on the order
\* of the entries of profiles and of unusableProfiles: the call on a status and
\* the call on the same status with these lists reordered return the same value.
C28_OrderIndependent ==
    [][(pc = "done" /\ pc' = "again") => result' = result]_vars

\* the second call has run on reordered lists: the two cooldown records of a
\* provider in cooldown carry different until values, an expired and a valid
\* OAuth profile stand side by side
C28_Witness ==
    /\ pc = "again"
    /\ \/ /\ Cardinality(UntilsOf(OpenaiCodex)) = 2
          /\ AllInCooldown(OpenaiCodex)
          /\ \E i \in RouteIdx : result.route[i].cooldown_until_ms = Some(12345)
       \/ /\ Len(RawProfiles) = 2
          /\ RawProfiles[1] = OauthValid
          /\ RawProfiles[2] = OauthExpiredProfile
          /\ result.runnable_now

----------------------------------------------------------------------------
(* The fallback step of auto_fix_preflight against the configured list *)

NotBlank(m) == Trim(m) # <<>>

\* new_list without its blank entries
WithoutBlanks(new_list) == SelectSeq(new_list, NotBlank)

Applied == pc = "done" /\ issued # <<>>

\* C29: auto_fix_preflight rewrites the configured fallback list only when the
\* reordered list differs from the current one, and it reaches a fixpoint: once
\* apply_fallbacks has succeeded, the following run with the same policy models
\* computes desired = current, issues no clear or add command and leaves the
\* configured list as it is.
C29_Fixpoint ==
    [][/\ (fallbacks_config' # fallbacks_config \/ Len(issued') > Len(issued))
              => desired # current
       /\ (pc = "done" /\ apply_result = Ok(<<>>) /\ runs' = runs + 1)
              => /\ pc' = "done"
                 /\ issued' = <<>>
                 /\ fallbacks_config' = fallbacks_config
                 /\ desired' # NoResult => desired' = current']_vars

\* the second run, after a first run that rewrote the list with success
C29_Witness ==
    /\ runs = 2
    /\ pc = "done"
    /\ apply_result = Ok(<<>>)
    /\ issued = <<>>
    /\ desired = current
    /\ Len(current) >= 3
    /\ fallbacks_config = current

\* C30: apply_fallbacks is clear-then-add and not atomic: it issues
\* `fallbacks clear`, then adds the non-blank entries of new_list one by one in
\* order and stops at the first failing command; on success the configured
\* list equals new_list without blanks, on a failure of the k-th add it is the
\* first k-1 entries of new_list, and a failing clear leaves the previous list
\* untouched.
C30_ClearThenAdd ==
    /\ issued # <<>> =>
           /\ issued[1] = ClearCmd
           /\ Len(issued) <= Len(WithoutBlanks(desired)) + 1
           /\ \A j \in 2..Len(issued) :
                  issued[j] = AddCmd(WithoutBlanks(desired)[j - 1])
    /\ (Applied /\ apply_result.t = "ok") =>
           /\ fallbacks_config = WithoutBlanks(desired)
           /\ Len(issued) = Len(WithoutBlanks(desired)) + 1
    /\ (Applied /\ apply_result.t = "err") =>
           fallbacks_config =
               IF Len(issued) = 1 THEN current
               ELSE SubSeq(WithoutBlanks(desired), 1, Len(issued) - 2)
    /\ pc = "add" =>
           fallbacks_config = SubSeq(WithoutBlanks(desired), 1, Len(issued) - 1)

\* the third add failed: the configured list holds two entries of new_list
\* and is neither the previous list nor the new one
C30_Witness ==
    /\ Applied
    /\ apply_result.t = "err"
    /\ Len(issued) = 4
    /\ Len(fallbacks_config) = 2
    /\ fallbacks_config # current
    /\ fallbacks_config # desired
    /\ current # <<>>

====
